---------------------------- MODULE Spec2Model ----------------------------
(***************************************************************************)
(* A model of the hyrcon-client transport layer (src/src/transport.rs):    *)
(* the two RCON backends behind RconClient, the Source packet codec and    *)
(* the Hyrcon line/block reader.                                           *)
(*                                                                         *)
(* Text is modelled as the sequence of its UTF-8 bytes.  One action is one *)
(* stretch of a handler between two socket operations (the await points);  *)
(* the peer's bytes and the outcome of each socket operation are the       *)
(* inputs of the action that performs the operation.                       *)
(***************************************************************************)
EXTENDS Integers, Sequences, FiniteSets, TLC

VARIABLES
  backend,          \* RconClient.backend: "Hyrcon" or "Source"
  closed,           \* HyrconClient.closed / SourceClient.closed
  authed,           \* SourceClient.authed
  next_request_id,  \* SourceClient.next_request_id (i32)
  pc,               \* position of the call in progress ("idle": none)
  op,               \* the call in progress, or the last one
  auth_id,          \* local of SourceClient::authenticate
  command_id,       \* local of SourceClient::send_command
  sentinel_id,      \* local of SourceClient::send_command
  payload_lines,    \* local of SourceClient::send_command
  lines,            \* local of read_block
  arg,              \* the password or command the call was given
  result,           \* what the last call returned
  sent,             \* this call's operations on the socket's writer, in
                    \* order, and how each ended
  received,         \* the packets (Source) or lines (Hyrcon) this call has
                    \* read, in order
  pre,              \* the session fields when this call was entered
  authed_by,        \* the call that last changed authed
  rd_eof,           \* the read half has reached end of stream
  wr_shut,          \* the write half has been shut down
  silent,           \* the peer has fallen silent: it sends nothing more
  frame,            \* codec: the id, kind and payload given to write_packet
  wire,             \* codec: the bytes in the stream read_packet reads
  decoded,          \* codec: what read_packet returned
  consumed,         \* codec: how many bytes read_packet took off the stream
  input,            \* util: the line given to sanitize / is_exit_command
  sanitized,        \* util: what sanitize returned (<< >> is None), if it has
  is_exit           \* util: what is_exit_command returned, if it has

vars == << backend, closed, authed, next_request_id, pc, op, auth_id,
           command_id, sentinel_id, payload_lines, lines, arg, result, sent,
           received, pre, authed_by, rd_eof, wr_shut, silent,
           frame, wire, decoded, consumed, input, sanitized, is_exit >>

\* The variables of the wire codec and of the input helpers, which the
\* session's steps leave alone.
codec_vars == << frame, wire, decoded, consumed >>
util_vars == << input, sanitized, is_exit >>

---------------------------------------------------------------------------
(* Bounds of the model.                                                    *)

\* Request ids are allocated while the counter is at most this.
MaxRequestId == 5
\* The peer sends at most this many packets in answer to one Source call.
MaxReads == 3
\* The peer sends at most this many lines before the "." of one block.
MaxBlockLines == 3

---------------------------------------------------------------------------
(* 32-bit integers.  TLC's integers are 32-bit themselves, so 2^31 and     *)
(* 2^32 are never written: the sign bit is handled apart.                  *)

I32Max == 2147483647
I32Min == (-2147483647) - 1

\* WrappingInc stopping at the largest id instead of wrapping.
WrappingInc_Saturating(x) == IF x = I32Max THEN I32Max ELSE x + 1

\* i32::wrapping_add(x, 1)
WrappingInc(x) == IF x = I32Max THEN I32Min ELSE x + 1

\* The id allocated before x.
WrappingDec(x) == IF x = I32Min THEN I32Max ELSE x - 1

\* The request ids the model lets a session allocate: its first ones, the
\* two on each side of the 32-bit boundary, and the last three below zero.
Allocatable(id) ==
  \/ id \in 1..MaxRequestId
  \/ id >= I32Max - 1
  \/ id <= I32Min + 1
  \/ id \in (-3)..(-1)

\* i32::to_le_bytes
to_le_bytes(x) ==
  LET m == IF x < 0 THEN (x + I32Max) + 1 ELSE x   \* x with the sign bit cleared
      top == (m \div 16777216) + (IF x < 0 THEN 128 ELSE 0)
  IN << m % 256, (m \div 256) % 256, (m \div 65536) % 256, top >>

\* i32::from_le_bytes
from_le_bytes(b) ==
  LET low == b[1] + 256 * b[2] + 65536 * b[3]
  IN IF b[4] >= 128
       THEN ((low + 16777216 * (b[4] - 128)) - I32Max) - 1
       ELSE low + 16777216 * b[4]

---------------------------------------------------------------------------
(* Text helpers (text is a sequence of bytes).                             *)

NUL == 0
LF == 10
CR == 13

Contains(s, set) == \E i \in 1..Len(s) : s[i] \in set

\* char::is_whitespace on the ASCII range
IsWhitespace(c) == c \in {9, 10, 11, 12, 13, 32}

\* str::trim().is_empty()
TrimIsEmpty(s) == \A i \in 1..Len(s) : IsWhitespace(s[i])

StartsWith(s, p) == Len(s) >= Len(p) /\ SubSeq(s, 1, Len(p)) = p

\* String::from_utf8 succeeds.  Text of ASCII bytes alone is valid (the
\* empty text included); else the characters are taken one at a time.
RECURSIVE ValidUtf8(_)
ValidUtf8(b) ==
  IF \A i \in 1..Len(b) : b[i] <= 127 THEN TRUE
  ELSE
    LET c == b[1]
        n == Len(b)
        Cont(i) == n >= i /\ b[i] >= 128 /\ b[i] <= 191
        In(i, lo, hi) == n >= i /\ b[i] >= lo /\ b[i] <= hi
    IN IF c <= 127 THEN ValidUtf8(Tail(b))
       ELSE IF c >= 194 /\ c <= 223
         THEN Cont(2) /\ ValidUtf8(SubSeq(b, 3, n))
       ELSE IF c >= 224 /\ c <= 239
         THEN /\ IF c = 224 THEN In(2, 160, 191)
                 ELSE IF c = 237 THEN In(2, 128, 159)
                 ELSE Cont(2)
              /\ Cont(3)
              /\ ValidUtf8(SubSeq(b, 4, n))
       ELSE IF c >= 240 /\ c <= 244
         THEN /\ IF c = 240 THEN In(2, 144, 191)
                 ELSE IF c = 244 THEN In(2, 128, 143)
                 ELSE Cont(2)
              /\ Cont(3)
              /\ Cont(4)
              /\ ValidUtf8(SubSeq(b, 5, n))
       ELSE FALSE

\* str::split('\0').next(): the text before the first NUL
BeforeNul(s) ==
  LET nuls == {i \in 1..Len(s) : s[i] = NUL}
  IN IF nuls = {} THEN s
     ELSE SubSeq(s, 1, (CHOOSE i \in nuls : \A j \in nuls : i <= j) - 1)

\* str::trim_end_matches('\r')
RECURSIVE TrimEndCr(_)
TrimEndCr(s) ==
  IF s # << >> /\ s[Len(s)] = CR THEN TrimEndCr(SubSeq(s, 1, Len(s) - 1))
  ELSE s

\* The index of the first LF of s, or 0.
RECURSIVE FirstLf(_, _)
FirstLf(s, i) ==
  IF i > Len(s) THEN 0
  ELSE IF s[i] = LF THEN i
  ELSE FirstLf(s, i + 1)

\* str::lines(): split after each LF, a final piece without LF included; the
\* LF and one CR before it are dropped.
RECURSIVE StrLines(_)
StrLines(s) ==
  IF s = << >> THEN << >>
  ELSE
    LET k == FirstLf(s, 1)
    IN IF k = 0 THEN << s >>
       ELSE
         LET raw == SubSeq(s, 1, k - 1)
             line == IF raw # << >> /\ raw[Len(raw)] = CR
                       THEN SubSeq(raw, 1, Len(raw) - 1)
                       ELSE raw
         IN << line >> \o StrLines(SubSeq(s, k + 1, Len(s)))

split_lines(payload) ==
  IF payload = << >> THEN << >>
  ELSE [i \in 1..Len(StrLines(payload)) |-> TrimEndCr(StrLines(payload)[i])]

---------------------------------------------------------------------------
(* The Source wire codec.                                                  *)

SERVERDATA_RESPONSE_VALUE == 0
SERVERDATA_EXECCOMMAND == 2
SERVERDATA_AUTH_RESPONSE == 2
SERVERDATA_AUTH == 3

\* PacketBytes counting the length prefix itself in the declared length.
PacketBytes_LengthCountsPrefix(id, kind, payload) ==
  LET length == 4 + 4 + 4 + Len(payload) + 2
  IN to_le_bytes(length) \o to_le_bytes(id) \o to_le_bytes(kind)
       \o payload \o << 0, 0 >>

\* The frame write_packet builds: length, id, kind, payload, two NUL bytes.
PacketBytes(id, kind, payload) ==
  LET length == 4 + 4 + Len(payload) + 2
  IN to_le_bytes(length) \o to_le_bytes(id) \o to_le_bytes(kind)
       \o payload \o << 0, 0 >>

\* write_packet up to its first socket operation: the buffer it hands to the
\* writer, or the rejection of a payload that holds a NUL.
write_packet(id, kind, payload) ==
  IF Contains(payload, {NUL})
    THEN [ok |-> FALSE, bytes |-> << >>]
    ELSE [ok |-> TRUE, bytes |-> PacketBytes(id, kind, payload)]

NoPacket == [id |-> 0, kind |-> 0, payload |-> << >>]

\* A failed read_packet: the error, and the read (of the "length" or of the
\* "payload") whose with_timeout returned it, "None" for the other errors.
ReadErrAt(e, c) == [ok |-> FALSE, err |-> e, context |-> c, packet |-> NoPacket]

ReadErr(e) == ReadErrAt(e, "None")

\* is_unexpected_eof finding no io::Error under the error's context.
is_unexpected_eof_Never(err) == FALSE

\* is_unexpected_eof: the error is an io::Error of kind UnexpectedEof
is_unexpected_eof(err) == err = "Eof"

\* read_packet without the test of the two terminating bytes.
read_packet_NoTerminatorCheck(in) ==
  IF Len(in.bytes) < 4 THEN ReadErrAt(in.tail, "length")
  ELSE
    LET length == from_le_bytes(SubSeq(in.bytes, 1, 4))
    IN IF length < 10 THEN ReadErr("InvalidLength")
       ELSE IF Len(in.bytes) - 4 < length
         THEN ReadErrAt(in.tail, "payload")
       ELSE
         LET buffer == SubSeq(in.bytes, 5, 4 + length)
             n == Len(buffer)
             id == from_le_bytes(SubSeq(buffer, 1, 4))
             kind == from_le_bytes(SubSeq(buffer, 5, 8))
             payload_bytes == SubSeq(buffer, 9, n - 2)
         IN IF n < 10 THEN ReadErr("TooSmall")
            ELSE IF ~ValidUtf8(payload_bytes) THEN ReadErr("NonUtf8")
            ELSE [ok |-> TRUE, err |-> "None", context |-> "None",
                  packet |-> [id |-> id, kind |-> kind,
                              payload |-> BeforeNul(payload_bytes)]]

\* read_packet on the bytes the peer has made available (in.bytes); in.tail
\* is what a read past them ends in: "Eof", "Timeout" or "Io".
read_packet(in) ==
  IF Len(in.bytes) < 4 THEN ReadErrAt(in.tail, "length")
  ELSE
    LET length == from_le_bytes(SubSeq(in.bytes, 1, 4))
    IN IF length < 10 THEN ReadErr("InvalidLength")
       ELSE IF Len(in.bytes) - 4 < length
         THEN ReadErrAt(in.tail, "payload")
       ELSE
         LET buffer == SubSeq(in.bytes, 5, 4 + length)
             n == Len(buffer)
             id == from_le_bytes(SubSeq(buffer, 1, 4))
             kind == from_le_bytes(SubSeq(buffer, 5, 8))
             payload_bytes == SubSeq(buffer, 9, n - 2)
         IN IF n < 10 THEN ReadErr("TooSmall")
            ELSE IF buffer[n - 1] # 0 \/ buffer[n] # 0
              THEN ReadErr("MissingTerminator")
            ELSE IF ~ValidUtf8(payload_bytes) THEN ReadErr("NonUtf8")
            ELSE [ok |-> TRUE, err |-> "None", context |-> "None",
                  packet |-> [id |-> id, kind |-> kind,
                              payload |-> BeforeNul(payload_bytes)]]

\* How many of the available bytes read_packet takes off the stream: a
\* read_exact that cannot be filled takes what there is; a declared length
\* below 10 returns before the body is read.
BytesTaken(in) ==
  IF Len(in.bytes) < 4 THEN Len(in.bytes)
  ELSE
    LET length == from_le_bytes(SubSeq(in.bytes, 1, 4))
    IN IF length < 10 THEN 4
       ELSE IF Len(in.bytes) - 4 < length THEN Len(in.bytes)
       ELSE 4 + length

\* The positions of its buffer (counted from 1) that read_packet indexes once
\* the body is read: buffer[0..4] and buffer[4..8] before the test of
\* buffer.len(), then the two last bytes and buffer[8..len - 2].
BufferIndexed(n) ==
  (1..8) \cup (IF n < 10 THEN {} ELSE {n - 1, n} \cup (9..(n - 2)))

---------------------------------------------------------------------------
(* What a call returns.  error is Option<String>: << >> is None, << m >> is *)
(* Some(m).  context is the context with_timeout attached to the error of   *)
(* a read of read_packet; auth_mode is the Greeting connect returns.        *)

Pending ==
  [ok |-> FALSE, outcome |-> "Pending", status |-> "None",
   payload |-> << >>, error |-> << >>, err |-> "None", context |-> "None",
   auth_mode |-> "None"]

\* Err(e) with the context c.
ErrAt(e, c) ==
  [ok |-> FALSE, outcome |-> "Err", status |-> "None",
   payload |-> << >>, error |-> << >>, err |-> e, context |-> c,
   auth_mode |-> "None"]

Err(e) == ErrAt(e, "None")

OkAuth(o) ==
  [ok |-> TRUE, outcome |-> o, status |-> "None",
   payload |-> << >>, error |-> << >>, err |-> "None", context |-> "None",
   auth_mode |-> "None"]

OkResponse(st, pl, er) ==
  [ok |-> TRUE, outcome |-> "Response", status |-> st,
   payload |-> pl, error |-> er, err |-> "None", context |-> "None",
   auth_mode |-> "None"]

OkBye ==
  [ok |-> TRUE, outcome |-> "Bye", status |-> "None",
   payload |-> << >>, error |-> << >>, err |-> "None", context |-> "None",
   auth_mode |-> "None"]

OkUnit ==
  [ok |-> TRUE, outcome |-> "Unit", status |-> "None",
   payload |-> << >>, error |-> << >>, err |-> "None", context |-> "None",
   auth_mode |-> "None"]

\* Ok(client) of connect, with the client's greeting.
OkClient(mode) ==
  [ok |-> TRUE, outcome |-> "Client", status |-> "None",
   payload |-> << >>, error |-> << >>, err |-> "None", context |-> "None",
   auth_mode |-> mode]

\* The errors that report a protocol violation by the peer.
ProtocolViolations ==
  {"InvalidLength", "TooSmall", "MissingTerminator", "NonUtf8",
   "SentinelKind", "SentinelPayload", "UnexpectedStatus", "EmptyBlock",
   "UnexpectedAuth", "EmptyAuthBlock"}

---------------------------------------------------------------------------
(* Inputs: what callers pass and what the peer and the socket do.          *)

\* "say", "", " ", "a\nb", "a\0"
Commands == { <<115, 97, 121>>, << >>, <<32>>, <<97, 10, 98>>, <<97, 0>> }

\* "pw", "p\rw", "p\0"
Passwords == { <<112, 119>>, <<112, 13, 119>>, <<112, 0>> }

\* tokio::time::timeout around a socket operation that by itself ends in
\* outcome; "Blocked" is an operation that by itself never completes.
await_timeout(outcome) == IF outcome = "Blocked" THEN "Timeout" ELSE outcome

\* with_timeout without the deadline: the operation is awaited as it is.
with_timeout_NoDeadline(outcome) == outcome

\* with_timeout: the operation raced against the session's deadline.
with_timeout(outcome) == await_timeout(outcome)

\* An operation returns to its caller only with an outcome other than
\* "Blocked".
Returning(outcomes) == {o \in outcomes : o # "Blocked"}

\* How a write_all + flush pair, a flush or a shutdown ends.
IoOutcomes == Returning({with_timeout(o) : o \in {"Ok", "Io", "Blocked"}})

\* Once the write half is shut down every write fails.
WriteOutcomes == IF wr_shut THEN {"Io"} ELSE IoOutcomes

\* An entry of sent: an operation on the socket's writer ("write": write_all
\* of bytes and the flush after it; "flush"; "shutdown") and how it ended.
SocketOp(c, b, w) == [call |-> c, bytes |-> b, w |-> w]

Packet(i, k, p) == [id |-> i, kind |-> k, payload |-> p]

\* q with x pushed.  The model keeps the last cap items that were pushed:
\* only a peer that sends without end pushes more than cap.
Record(q, x, cap) ==
  IF Len(q) < cap THEN Append(q, x) ELSE Append(Tail(q), x)

\* "c" and "a\r\nb\n"
PayloadC == <<99>>
PayloadAB == <<97, 13, 10, 98, 10>>

\* The id the peer answers: the AUTH request's or the command's.
AnsweredId == IF pc = "auth_wait" THEN auth_id ELSE command_id

\* The packets the peer sends while authenticate waits: RESPONSE_VALUE
\* packets, a packet of another kind, and AUTH_RESPONSE packets with the
\* request's id, with -1, and with an earlier and a later id.
AuthPeerPackets ==
  { Packet(auth_id, 0, << >>), Packet(WrappingDec(auth_id), 0, PayloadC),
    Packet(auth_id, 3, << >>),
    Packet(auth_id, 2, << >>), Packet(-1, 2, << >>),
    Packet(WrappingDec(auth_id), 2, << >>),
    Packet(WrappingInc(auth_id), 2, PayloadC) }

\* The packets the peer sends while send_command collects: packets with the
\* command's id, with the sentinel's id, with -1 and with an earlier id.
CollectPeerPackets ==
  { Packet(command_id, 0, p) : p \in {<< >>, PayloadC, PayloadAB} }
  \cup { Packet(command_id, 2, << >>),
         Packet(WrappingDec(command_id), 0, PayloadC),
         Packet(-1, 0, PayloadC),
         Packet(sentinel_id, 0, << >>), Packet(sentinel_id, 0, PayloadC),
         Packet(sentinel_id, 2, << >>),
         Packet(-1, 2, << >>), Packet(-1, 2, PayloadC) }

PeerPackets == IF pc = "auth_wait" THEN AuthPeerPackets ELSE CollectPeerPackets

\* Frames that are not well formed: declared length 9, declared length -1,
\* a non-zero terminator, a payload that is not UTF-8, and a frame whose
\* payload is padded after a NUL (well formed: the padding is dropped).
OddFrames ==
  { <<9, 0, 0, 0>>,
    <<255, 255, 255, 255>>,
    <<10, 0, 0, 0,  1, 0, 0, 0,  0, 0, 0, 0,  0, 1>>,
    <<11, 0, 0, 0,  1, 0, 0, 0,  0, 0, 0, 0,  255,  0, 0>>,
    to_le_bytes(13) \o to_le_bytes(AnsweredId) \o to_le_bytes(0)
       \o <<99, 0, 120>> \o <<0, 0>> }

\* A frame cut short: nothing, half a length prefix, a header without body.
ShortFrames == { << >>, <<10, 0>>, <<10, 0, 0, 0, 1, 0>> }

\* What a read past the bytes the peer has sent ends in: the end of the
\* stream, an error, or the deadline.  A silent peer does not end the stream.
Tails ==
  Returning({with_timeout(t) :
               t \in IF silent THEN {"Blocked"} ELSE {"Eof", "Io", "Blocked"}})

SourceInputs ==
  IF rd_eof THEN {[bytes |-> << >>, tail |-> "Eof"]}
  ELSE IF silent \/ Len(received) >= MaxReads
    THEN {[bytes |-> << >>, tail |-> t] : t \in Tails}
  ELSE {[bytes |-> PacketBytes(p.id, p.kind, p.payload), tail |-> "Timeout"] :
          p \in PeerPackets}
       \cup {[bytes |-> f, tail |-> "Timeout"] : f \in OddFrames}
       \cup {[bytes |-> f, tail |-> t] : f \in ShortFrames, t \in Tails}

---------------------------------------------------------------------------
(* The Source backend.                                                     *)

Snapshot ==
  [closed |-> closed, authed |-> authed, next_request_id |-> next_request_id]

\* Entering a call: the call's history starts empty.
Enter(o, a) ==
  /\ op' = o
  /\ arg' = a
  /\ pre' = Snapshot
  /\ received' = << >>
  /\ lines' = << >>
  /\ payload_lines' = << >>

\* SourceClient::authenticate, the checks before anything is allocated.
SourceAuthenticateCheck(password) ==
  IF Contains(password, {CR, LF}) THEN "PasswordNewline"
  ELSE IF Contains(password, {NUL}) THEN "PasswordNul"
  ELSE "Pass"

\* SourceClient::authenticate up to the end of its write_packet.
SourceAuthenticate(password) ==
  /\ backend = "Source"
  /\ pc = "idle"
  /\ Enter("authenticate", password)
  /\ LET rej == SourceAuthenticateCheck(password)
     IN IF rej # "Pass"
          THEN /\ result' = Err(rej)
               /\ sent' = << >>
               /\ UNCHANGED << pc, next_request_id, auth_id >>
          ELSE /\ Allocatable(next_request_id)
               /\ auth_id' = next_request_id
               /\ next_request_id' = WrappingInc(next_request_id)
               /\ LET wp == write_packet(next_request_id, SERVERDATA_AUTH,
                                         password)
                  IN IF ~wp.ok
                       THEN /\ result' = Err("PayloadNul")
                            /\ sent' = << >>
                            /\ pc' = "idle"
                       ELSE \E w \in WriteOutcomes :
                              /\ sent' = << SocketOp("write", wp.bytes, w) >>
                              /\ IF w = "Ok"
                                   THEN pc' = "auth_wait" /\ result' = Pending
                                   ELSE pc' = "idle" /\ result' = Err(w)
  /\ UNCHANGED << codec_vars, util_vars, backend, silent,
                  closed, authed, command_id, sentinel_id,
                  authed_by, rd_eof, wr_shut >>

\* AuthOnPacket with a RESPONSE_VALUE packet ending the loop.
AuthOnPacket_ValueEndsLoop(packet) ==
  IF packet.kind = SERVERDATA_AUTH_RESPONSE /\ packet.id = auth_id
    THEN [break |-> TRUE, authed |-> TRUE, outcome |-> "Success"]
  ELSE IF packet.kind = SERVERDATA_AUTH_RESPONSE /\ packet.id = -1
    THEN [break |-> TRUE, authed |-> FALSE, outcome |-> "Failure"]
  ELSE IF packet.kind \in {SERVERDATA_AUTH_RESPONSE, SERVERDATA_RESPONSE_VALUE}
    THEN [break |-> TRUE, authed |-> authed, outcome |-> "Failure"]
  ELSE [break |-> FALSE, authed |-> authed, outcome |-> "Failure"]

\* One turn of authenticate's loop on a decoded packet: whether the loop
\* ends, and the authed flag and the outcome after it.
AuthOnPacket(packet) ==
  IF packet.kind = SERVERDATA_RESPONSE_VALUE
    THEN [break |-> FALSE, authed |-> authed, outcome |-> "Failure"]
  ELSE IF packet.kind = SERVERDATA_AUTH_RESPONSE
    THEN IF packet.id = auth_id
           THEN [break |-> TRUE, authed |-> TRUE, outcome |-> "Success"]
         ELSE IF packet.id = -1
           THEN [break |-> TRUE, authed |-> FALSE, outcome |-> "Failure"]
         ELSE [break |-> TRUE, authed |-> authed, outcome |-> "Failure"]
  ELSE [break |-> FALSE, authed |-> authed, outcome |-> "Failure"]

\* The effect of a failed read_packet on the session and the socket.
ReadFailed(in, r) ==
  /\ closed' = (closed \/ is_unexpected_eof(r.err))
  /\ rd_eof' = (rd_eof \/ r.err = "Eof")
  /\ result' = ErrAt(r.err, r.context)
  /\ pc' = "idle"
  /\ UNCHANGED << received >>

\* SourceClient::authenticate, one read_packet and the turn of the loop on it.
SourceAuthRead(in) ==
  /\ backend = "Source"
  /\ pc = "auth_wait"
  /\ LET r == read_packet(in)
     IN IF ~r.ok
          THEN ReadFailed(in, r) /\ UNCHANGED << authed, authed_by >>
          ELSE LET s == AuthOnPacket(r.packet)
               IN /\ received' = Record(received, r.packet, MaxReads)
                  /\ authed' = s.authed
                  /\ authed_by' = IF s.authed # authed THEN op ELSE authed_by
                  /\ IF s.break
                       THEN pc' = "idle" /\ result' = OkAuth(s.outcome)
                       ELSE UNCHANGED << pc, result >>
                  /\ UNCHANGED << closed, rd_eof >>
  /\ UNCHANGED << codec_vars, util_vars, backend, silent,
                  next_request_id, op, auth_id,
                  command_id,
                  sentinel_id, payload_lines, lines, arg, sent, pre,
                  wr_shut >>

\* SourceSendCommandCheck without the check of closed.
SourceSendCommandCheck_NoClosedCheck(command) ==
  IF ~authed THEN "NotAuthenticated"
  ELSE IF TrimIsEmpty(command) THEN "EmptyCommand"
  ELSE IF Contains(command, {CR, LF}) THEN "CommandNewline"
  ELSE IF Contains(command, {NUL}) THEN "CommandNul"
  ELSE "Pass"

\* SourceSendCommandCheck without the check of authed.
SourceSendCommandCheck_NoAuthCheck(command) ==
  IF closed THEN "SessionClosed"
  ELSE IF TrimIsEmpty(command) THEN "EmptyCommand"
  ELSE IF Contains(command, {CR, LF}) THEN "CommandNewline"
  ELSE IF Contains(command, {NUL}) THEN "CommandNul"
  ELSE "Pass"

\* SourceSendCommandCheck leaving the NUL to write_packet.
SourceSendCommandCheck_NoNulCheck(command) ==
  IF closed THEN "SessionClosed"
  ELSE IF ~authed THEN "NotAuthenticated"
  ELSE IF TrimIsEmpty(command) THEN "EmptyCommand"
  ELSE IF Contains(command, {CR, LF}) THEN "CommandNewline"
  ELSE "Pass"

\* SourceClient::send_command, the checks before anything is allocated.
SourceSendCommandCheck(command) ==
  IF closed THEN "SessionClosed"
  ELSE IF ~authed THEN "NotAuthenticated"
  ELSE IF TrimIsEmpty(command) THEN "EmptyCommand"
  ELSE IF Contains(command, {CR, LF}) THEN "CommandNewline"
  ELSE IF Contains(command, {NUL}) THEN "CommandNul"
  ELSE "Pass"

\* SourceClient::send_command up to the end of the command's write_packet.
SourceSendCommand(command) ==
  /\ backend = "Source"
  /\ pc = "idle"
  /\ Enter("send_command", command)
  /\ LET rej == SourceSendCommandCheck(command)
     IN IF rej # "Pass"
          THEN /\ result' = Err(rej)
               /\ sent' = << >>
               /\ UNCHANGED << pc, next_request_id, command_id >>
          ELSE /\ Allocatable(next_request_id)
               /\ Allocatable(WrappingInc(next_request_id))
               /\ command_id' = next_request_id
               /\ next_request_id' = WrappingInc(next_request_id)
               /\ LET wp == write_packet(next_request_id,
                                         SERVERDATA_EXECCOMMAND, command)
                  IN IF ~wp.ok
                       THEN /\ result' = Err("PayloadNul")
                            /\ sent' = << >>
                            /\ pc' = "idle"
                       ELSE \E w \in WriteOutcomes :
                              /\ sent' = << SocketOp("write", wp.bytes, w) >>
                              /\ IF w = "Ok"
                                   THEN pc' = "sentinel" /\ result' = Pending
                                   ELSE pc' = "idle" /\ result' = Err(w)
  /\ UNCHANGED << codec_vars, util_vars, backend, silent,
                  closed, authed, auth_id, sentinel_id,
                  authed_by, rd_eof, wr_shut >>

\* SourceWriteSentinel sending the sentinel under the command's id.
SourceWriteSentinel_ReusesId(w) ==
  /\ backend = "Source"
  /\ pc = "sentinel"
  /\ sentinel_id' = command_id
  /\ next_request_id' = WrappingInc(next_request_id)
  /\ LET wp == write_packet(command_id, SERVERDATA_EXECCOMMAND, << >>)
     IN /\ sent' = Append(sent, SocketOp("write", wp.bytes, w))
        /\ IF w = "Ok"
             THEN pc' = "collect" /\ UNCHANGED result
             ELSE pc' = "idle" /\ result' = Err(w)
  /\ UNCHANGED << codec_vars, util_vars, backend, silent,
                  closed, authed, op, auth_id,
                  command_id,
                  payload_lines, lines, arg, received, pre, authed_by,
                  rd_eof, wr_shut >>

\* SourceClient::send_command, the sentinel's allocation and write_packet.
SourceWriteSentinel(w) ==
  /\ backend = "Source"
  /\ pc = "sentinel"
  /\ sentinel_id' = next_request_id
  /\ next_request_id' = WrappingInc(next_request_id)
  /\ LET wp == write_packet(next_request_id, SERVERDATA_EXECCOMMAND, << >>)
     IN /\ sent' = Append(sent, SocketOp("write", wp.bytes, w))
        /\ IF w = "Ok"
             THEN pc' = "collect" /\ UNCHANGED result
             ELSE pc' = "idle" /\ result' = Err(w)
  /\ UNCHANGED << codec_vars, util_vars, backend, silent,
                  closed, authed, op, auth_id,
                  command_id,
                  payload_lines, lines, arg, received, pre, authed_by,
                  rd_eof, wr_shut >>

\* The turn of send_command's loop without its three special cases.
CollectOrdinary(packet, lines_after) ==
  IF packet.kind = SERVERDATA_RESPONSE_VALUE /\ packet.id = command_id
    THEN [next |-> "continue", err |-> "None", authed |-> authed,
          payload_lines |-> lines_after]
  ELSE [next |-> "continue", err |-> "None", authed |-> authed,
        payload_lines |-> payload_lines]

\* CollectOnPacket putting a packet's lines before the lines collected so far.
CollectOnPacket_Prepends(packet) ==
  IF packet.kind = SERVERDATA_AUTH_RESPONSE /\ packet.id = -1
    THEN [next |-> "bail", err |-> "Deauth", authed |-> FALSE,
          payload_lines |-> payload_lines]
  ELSE IF packet.id = sentinel_id
    THEN [next |-> IF packet.kind = SERVERDATA_RESPONSE_VALUE
                      /\ packet.payload = << >> THEN "break" ELSE "bail",
          err |-> IF packet.kind # SERVERDATA_RESPONSE_VALUE
                    THEN "SentinelKind"
                  ELSE IF packet.payload # << >> THEN "SentinelPayload"
                  ELSE "None",
          authed |-> authed, payload_lines |-> payload_lines]
  ELSE CollectOrdinary(packet, split_lines(packet.payload) \o payload_lines)

\* CollectOnPacket ending the loop on any packet with the sentinel's id.
CollectOnPacket_AcceptsAnySentinel(packet) ==
  IF packet.kind = SERVERDATA_AUTH_RESPONSE /\ packet.id = -1
    THEN [next |-> "bail", err |-> "Deauth", authed |-> FALSE,
          payload_lines |-> payload_lines]
  ELSE IF packet.id = sentinel_id
    THEN [next |-> "break", err |-> "None", authed |-> authed,
          payload_lines |-> payload_lines]
  ELSE CollectOrdinary(packet, payload_lines \o split_lines(packet.payload))

\* CollectOnPacket failing on AUTH_RESPONSE -1 without clearing authed.
CollectOnPacket_KeepsAuthed(packet) ==
  IF packet.kind = SERVERDATA_AUTH_RESPONSE /\ packet.id = -1
    THEN [next |-> "bail", err |-> "Deauth", authed |-> authed,
          payload_lines |-> payload_lines]
  ELSE IF packet.id = sentinel_id
    THEN [next |-> IF packet.kind = SERVERDATA_RESPONSE_VALUE
                      /\ packet.payload = << >> THEN "break" ELSE "bail",
          err |-> IF packet.kind # SERVERDATA_RESPONSE_VALUE
                    THEN "SentinelKind"
                  ELSE IF packet.payload # << >> THEN "SentinelPayload"
                  ELSE "None",
          authed |-> authed, payload_lines |-> payload_lines]
  ELSE CollectOrdinary(packet, payload_lines \o split_lines(packet.payload))

\* CollectOnPacket taking the lines of every RESPONSE_VALUE packet whose id is
\* at most the command's.
CollectOnPacket_TakesOlderIds(packet) ==
  IF packet.kind = SERVERDATA_AUTH_RESPONSE /\ packet.id = -1
    THEN [next |-> "bail", err |-> "Deauth", authed |-> FALSE,
          payload_lines |-> payload_lines]
  ELSE IF packet.id = sentinel_id
    THEN IF packet.kind # SERVERDATA_RESPONSE_VALUE
           THEN [next |-> "bail", err |-> "SentinelKind", authed |-> authed,
                 payload_lines |-> payload_lines]
         ELSE IF packet.payload # << >>
           THEN [next |-> "bail", err |-> "SentinelPayload",
                 authed |-> authed, payload_lines |-> payload_lines]
         ELSE [next |-> "break", err |-> "None", authed |-> authed,
               payload_lines |-> payload_lines]
  ELSE IF packet.kind = SERVERDATA_RESPONSE_VALUE /\ packet.id <= command_id
    THEN [next |-> "continue", err |-> "None", authed |-> authed,
          payload_lines |->
            IF packet.payload # << >>
              THEN payload_lines \o split_lines(packet.payload)
              ELSE payload_lines]
  ELSE [next |-> "continue", err |-> "None", authed |-> authed,
        payload_lines |-> payload_lines]

\* One turn of send_command's loop on a decoded packet: how the loop goes on
\* ("continue", "break" or "bail"), and the flag and the lines after it.
CollectOnPacket(packet) ==
  IF packet.kind = SERVERDATA_AUTH_RESPONSE /\ packet.id = -1
    THEN [next |-> "bail", err |-> "Deauth", authed |-> FALSE,
          payload_lines |-> payload_lines]
  ELSE IF packet.id = sentinel_id
    THEN IF packet.kind # SERVERDATA_RESPONSE_VALUE
           THEN [next |-> "bail", err |-> "SentinelKind", authed |-> authed,
                 payload_lines |-> payload_lines]
         ELSE IF packet.payload # << >>
           THEN [next |-> "bail", err |-> "SentinelPayload",
                 authed |-> authed, payload_lines |-> payload_lines]
         ELSE [next |-> "break", err |-> "None", authed |-> authed,
               payload_lines |-> payload_lines]
  ELSE IF packet.kind = SERVERDATA_RESPONSE_VALUE /\ packet.id = command_id
    THEN [next |-> "continue", err |-> "None", authed |-> authed,
          payload_lines |->
            IF packet.payload # << >>
              THEN payload_lines \o split_lines(packet.payload)
              ELSE payload_lines]
  ELSE [next |-> "continue", err |-> "None", authed |-> authed,
        payload_lines |-> payload_lines]

\* SourceClient::send_command, one read_packet and the turn of the loop on it.
SourceCollectRead(in) ==
  /\ backend = "Source"
  /\ pc = "collect"
  /\ LET r == read_packet(in)
     IN IF ~r.ok
          THEN ReadFailed(in, r)
               /\ UNCHANGED << authed, authed_by, payload_lines >>
          ELSE LET s == CollectOnPacket(r.packet)
               IN /\ received' = Record(received, r.packet, MaxReads)
                  /\ authed' = s.authed
                  /\ authed_by' = IF s.authed # authed THEN op ELSE authed_by
                  /\ payload_lines' = s.payload_lines
                  /\ CASE s.next = "bail" ->
                            pc' = "idle" /\ result' = Err(s.err)
                       [] s.next = "break" ->
                            /\ pc' = "idle"
                            /\ result' = OkResponse("Ok", s.payload_lines,
                                                    << >>)
                       [] OTHER -> UNCHANGED << pc, result >>
                  /\ UNCHANGED << closed, rd_eof >>
  /\ UNCHANGED << codec_vars, util_vars, backend, silent,
                  next_request_id, op, auth_id,
                  command_id,
                  sentinel_id, lines, arg, sent, pre, wr_shut >>

\* SourceQuit shutting the writer down without flushing it first.
SourceQuit_NoFlush ==
  /\ backend = "Source"
  /\ pc = "idle"
  /\ Enter("quit", << >>)
  /\ IF closed
       THEN result' = OkUnit /\ sent' = << >> /\ UNCHANGED << closed, wr_shut >>
       ELSE /\ closed' = TRUE
            /\ \E s \in IoOutcomes :
                 /\ sent' = << SocketOp("shutdown", << >>, s) >>
                 /\ IF s # "Ok"
                      THEN result' = Err(s) /\ UNCHANGED wr_shut
                      ELSE result' = OkUnit /\ wr_shut' = TRUE
  /\ UNCHANGED << codec_vars, util_vars, backend, silent,
                  authed, next_request_id, pc, auth_id,
                  command_id, sentinel_id, authed_by, rd_eof >>

\* SourceQuit flushing and shutting down whether or not the session is closed.
SourceQuit_NoClosedCheck ==
  /\ backend = "Source"
  /\ pc = "idle"
  /\ Enter("quit", << >>)
  /\ closed' = TRUE
  /\ \E f \in IoOutcomes :
       IF f # "Ok"
         THEN /\ sent' = << SocketOp("flush", << >>, f) >>
              /\ result' = Err(f)
              /\ UNCHANGED wr_shut
         ELSE \E s \in IoOutcomes :
                /\ sent' = << SocketOp("flush", << >>, f),
                              SocketOp("shutdown", << >>, s) >>
                /\ IF s # "Ok"
                     THEN result' = Err(s) /\ UNCHANGED wr_shut
                     ELSE result' = OkUnit /\ wr_shut' = TRUE
  /\ UNCHANGED << codec_vars, util_vars, backend, silent,
                  authed, next_request_id, pc, auth_id,
                  command_id, sentinel_id, authed_by, rd_eof >>

\* SourceClient::quit: the flush and the shutdown end in f and s.
SourceQuit ==
  /\ backend = "Source"
  /\ pc = "idle"
  /\ Enter("quit", << >>)
  /\ IF closed
       THEN result' = OkUnit /\ sent' = << >> /\ UNCHANGED << closed, wr_shut >>
       ELSE /\ closed' = TRUE
            /\ \E f \in IoOutcomes :
                 IF f # "Ok"
                   THEN /\ sent' = << SocketOp("flush", << >>, f) >>
                        /\ result' = Err(f)
                        /\ UNCHANGED wr_shut
                   ELSE \E s \in IoOutcomes :
                          /\ sent' = << SocketOp("flush", << >>, f),
                                        SocketOp("shutdown", << >>, s) >>
                          /\ IF s # "Ok"
                               THEN result' = Err(s) /\ UNCHANGED wr_shut
                               ELSE result' = OkUnit /\ wr_shut' = TRUE
  /\ UNCHANGED << codec_vars, util_vars, backend, silent,
                  authed, next_request_id, pc, auth_id,
                  command_id, sentinel_id, authed_by, rd_eof >>

---------------------------------------------------------------------------
(* The Hyrcon line protocol.                                               *)

STR_DOT == <<46>>                                      \* "."
STR_OK == <<79, 75>>                                   \* "OK"
STR_ERR == <<69, 82, 82>>                              \* "ERR"
STR_BYE == <<66, 89, 69>>                              \* "BYE"
STR_AUTH_OK == <<65, 85, 84, 72, 32, 79, 75>>          \* "AUTH OK"
STR_AUTH_FAIL == <<65, 85, 84, 72, 32, 70, 65, 73, 76>> \* "AUTH FAIL"
STR_AUTH_PREFIX == <<65, 85, 84, 72, 32>>              \* "AUTH "
STR_ERROR_PREFIX == <<69, 82, 82, 79, 82, 32>>         \* "ERROR "
STR_QUIT == <<81, 85, 73, 84>>                         \* "QUIT"

\* read_line on the bytes the peer has made available, which hold at most
\* one LF, at their end; in.tail is what a read past them ends in.
read_line(in) ==
  LET k == FirstLf(in.bytes, 1)
      n == Len(in.bytes)
  IN IF k = 0 /\ in.tail # "Eof" THEN [ok |-> FALSE, err |-> in.tail, line |-> << >>]
     ELSE IF ~ValidUtf8(in.bytes) THEN [ok |-> FALSE, err |-> "Io", line |-> << >>]
     ELSE IF n = 0 THEN [ok |-> FALSE, err |-> "ServerClosed", line |-> << >>]
     ELSE IF in.bytes[n] = LF
       THEN LET popped == SubSeq(in.bytes, 1, n - 1)
            IN [ok |-> TRUE, err |-> "None",
                line |-> IF popped # << >> /\ popped[Len(popped)] = CR
                           THEN SubSeq(popped, 1, Len(popped) - 1)
                           ELSE popped]
     ELSE [ok |-> TRUE, err |-> "None", line |-> in.bytes]

\* extract_error taking the first line with the prefix, wherever it is.
extract_error_AnyErrorLine(ls) ==
  IF \E i \in 1..Len(ls) : StartsWith(ls[i], STR_ERROR_PREFIX)
    THEN LET k == CHOOSE i \in 1..Len(ls) :
                    /\ StartsWith(ls[i], STR_ERROR_PREFIX)
                    /\ \A j \in 1..(i - 1) :
                         ~StartsWith(ls[j], STR_ERROR_PREFIX)
         IN [payload |-> SubSeq(ls, 1, k - 1) \o SubSeq(ls, k + 1, Len(ls)),
             error |-> << SubSeq(ls[k], Len(STR_ERROR_PREFIX) + 1,
                                 Len(ls[k])) >>]
    ELSE [payload |-> ls, error |-> << >>]

extract_error(ls) ==
  IF ls # << >> /\ StartsWith(ls[Len(ls)], STR_ERROR_PREFIX)
    THEN [payload |-> SubSeq(ls, 1, Len(ls) - 1),
          error |-> << SubSeq(ls[Len(ls)], Len(STR_ERROR_PREFIX) + 1,
                              Len(ls[Len(ls)])) >>]
    ELSE [payload |-> ls, error |-> << >>]

parse_command_block(block) ==
  IF block = << >> THEN Err("EmptyBlock")
  ELSE
    LET status_line == Head(block)
        rest == extract_error(Tail(block))
    IN IF status_line = STR_OK
         THEN OkResponse("Ok", rest.payload, rest.error)
       ELSE IF status_line = STR_ERR
         THEN OkResponse("Err", rest.payload, rest.error)
       ELSE IF status_line = STR_BYE THEN OkBye
       ELSE Err("UnexpectedStatus")

\* HyrconAuthResult matching the first line by its beginning only.
HyrconAuthResult_PrefixMatch(block) ==
  IF block = << >> THEN Err("EmptyAuthBlock")
  ELSE IF StartsWith(Head(block), STR_AUTH_OK) THEN OkAuth("Success")
  ELSE IF StartsWith(Head(block), STR_AUTH_FAIL) THEN OkAuth("Failure")
  ELSE Err("UnexpectedAuth")

\* HyrconClient::authenticate after its read_block: the match on the first
\* line of the block.
HyrconAuthResult(block) ==
  IF block = << >> THEN Err("EmptyAuthBlock")
  ELSE IF Head(block) = STR_AUTH_OK THEN OkAuth("Success")
  ELSE IF Head(block) = STR_AUTH_FAIL THEN OkAuth("Failure")
  ELSE Err("UnexpectedAuth")

\* HyrconClient::send_command after its read_block: the outcome and the
\* closed flag.
HyrconCommandResult(block) ==
  LET outcome == parse_command_block(block)
  IN [result |-> outcome,
      closed |-> IF outcome.ok /\ outcome.outcome = "Bye" THEN TRUE ELSE closed]

\* HyrconQuitResult leaving the session open after an OK or ERR reply.
HyrconQuitResult_LeavesOpen(block) ==
  LET c == HyrconCommandResult(block)
  IN IF c.result.ok /\ c.result.outcome = "Bye"
       THEN [result |-> OkUnit, closed |-> c.closed]
     ELSE IF c.result.ok
       THEN [result |-> Err("UnexpectedQuitReply"), closed |-> c.closed]
     ELSE [result |-> c.result, closed |-> c.closed]

\* HyrconClient::quit after send_command("QUIT") has returned.
HyrconQuitResult(block) ==
  LET c == HyrconCommandResult(block)
  IN IF c.result.ok /\ c.result.outcome = "Bye"
       THEN [result |-> OkUnit, closed |-> c.closed]
     ELSE IF c.result.ok
       THEN [result |-> Err("UnexpectedQuitReply"), closed |-> TRUE]
     ELSE [result |-> c.result, closed |-> c.closed]

STR_HYRCON_READY == <<72, 89, 82, 67, 79, 78, 32, 82, 69, 65, 68, 89>>
STR_AUTH_REQUIRED == <<65, 85, 84, 72, 32, 82, 69, 81, 85, 73, 82, 69, 68>>
STR_AUTH_OPTIONAL == <<65, 85, 84, 72, 32, 79, 80, 84, 73, 79, 78, 65, 76>>

\* The ends of a block: "." LF and "." CR LF.
DotLines == { STR_DOT \o <<LF>>, STR_DOT \o <<CR, LF>> }

\* The lines the peer sends before the end of a block.  In a greeting:
\* "HYRCON READY", "AUTH REQUIRED" CR LF, "AUTH OPTIONAL", "hi".  In answer
\* to AUTH: "AUTH OK", "AUTH FAIL" CR LF, "AUTH OK!", "hi".  In answer to a
\* command or to QUIT: "OK", "ERR" CR LF, "BYE", "ERROR x", "hi".
BlockLines ==
  IF op = "connect"
    THEN { STR_HYRCON_READY \o <<LF>>, STR_AUTH_REQUIRED \o <<CR, LF>>,
           STR_AUTH_OPTIONAL \o <<LF>>, <<104, 105, LF>> }
  ELSE IF op = "authenticate"
    THEN { STR_AUTH_OK \o <<LF>>, STR_AUTH_FAIL \o <<CR, LF>>,
           STR_AUTH_OK \o <<33, LF>>, <<104, 105, LF>> }
  ELSE { STR_OK \o <<LF>>, STR_ERR \o <<CR, LF>>, STR_BYE \o <<LF>>,
         STR_ERROR_PREFIX \o <<120, LF>>, <<104, 105, LF>> }

PeerLines == DotLines \cup BlockLines

IsDotLine(bytes) == bytes \in DotLines

HyrconInputs ==
  IF rd_eof THEN {[bytes |-> << >>, tail |-> "Eof"]}
  ELSE IF silent THEN {[bytes |-> << >>, tail |-> t] : t \in Tails}
  ELSE {[bytes |-> << >>, tail |-> t] : t \in Tails}
       \cup {[bytes |-> STR_DOT, tail |-> "Eof"]}
       \cup {[bytes |-> l, tail |-> "Timeout"] :
               l \in {x \in PeerLines :
                        Len(lines) < MaxBlockLines \/ IsDotLine(x)}}

\* HyrconClient::authenticate, the check before anything is written.
HyrconAuthenticateCheck(password) ==
  IF Contains(password, {CR, LF}) THEN "PasswordNewline" ELSE "Pass"

\* HyrconClient::send_command, the checks before anything is written.
HyrconSendCommandCheck(command) ==
  IF closed THEN "SessionClosed"
  ELSE IF TrimIsEmpty(command) THEN "EmptyCommand"
  ELSE IF Contains(command, {CR, LF}) THEN "CommandNewline"
  ELSE "Pass"

\* write_line: the line and its newline go to the writer; w is how the two
\* write_all and the flush end.
WriteLine(line) ==
  \E w \in WriteOutcomes :
    /\ sent' = << SocketOp("write", line \o <<LF>>, w) >>
    /\ IF w = "Ok"
         THEN pc' = "block" /\ result' = Pending
         ELSE pc' = "idle" /\ result' = Err(w)

\* HyrconClient::authenticate up to the end of its write_line.
HyrconAuthenticate(password) ==
  /\ backend = "Hyrcon"
  /\ pc = "idle"
  /\ Enter("authenticate", password)
  /\ LET rej == HyrconAuthenticateCheck(password)
     IN IF rej # "Pass"
          THEN result' = Err(rej) /\ sent' = << >> /\ UNCHANGED pc
          ELSE WriteLine(STR_AUTH_PREFIX \o password)
  /\ UNCHANGED << codec_vars, util_vars, backend, silent,
                  closed, authed, next_request_id, auth_id,
                  command_id, sentinel_id, authed_by, rd_eof, wr_shut >>

\* HyrconClient::send_command up to the end of its write_line.
HyrconSendCommand(command) ==
  /\ backend = "Hyrcon"
  /\ pc = "idle"
  /\ Enter("send_command", command)
  /\ LET rej == HyrconSendCommandCheck(command)
     IN IF rej # "Pass"
          THEN result' = Err(rej) /\ sent' = << >> /\ UNCHANGED pc
          ELSE WriteLine(command)
  /\ UNCHANGED << codec_vars, util_vars, backend, silent,
                  closed, authed, next_request_id, auth_id,
                  command_id, sentinel_id, authed_by, rd_eof, wr_shut >>

\* HyrconClient::quit up to the end of the write_line of its send_command.
HyrconQuit ==
  /\ backend = "Hyrcon"
  /\ pc = "idle"
  /\ Enter("quit", << >>)
  /\ IF closed
       THEN result' = OkUnit /\ sent' = << >> /\ UNCHANGED pc
       ELSE LET rej == HyrconSendCommandCheck(STR_QUIT)
            IN IF rej # "Pass"
                 THEN result' = Err(rej) /\ sent' = << >> /\ UNCHANGED pc
                 ELSE WriteLine(STR_QUIT)
  /\ UNCHANGED << codec_vars, util_vars, backend, silent,
                  closed, authed, next_request_id, auth_id,
                  command_id, sentinel_id, authed_by, rd_eof, wr_shut >>

\* hyrcon_from_lines taking every second line but AUTH REQUIRED as optional.
hyrcon_from_lines_AnyMode(ls) ==
  IF Len(ls) < 2 THEN [ok |-> FALSE, err |-> "GreetingNoAuthMode",
                       auth_mode |-> "None"]
  ELSE IF ls[1] # STR_HYRCON_READY
    THEN [ok |-> FALSE, err |-> "UnexpectedBanner", auth_mode |-> "None"]
  ELSE IF ls[2] = STR_AUTH_REQUIRED
    THEN [ok |-> TRUE, err |-> "None", auth_mode |-> "Required"]
  ELSE [ok |-> TRUE, err |-> "None", auth_mode |-> "Optional"]

\* Greeting::hyrcon_from_lines: the auth mode of the greeting, or the error.
hyrcon_from_lines(ls) ==
  IF Len(ls) < 2 THEN [ok |-> FALSE, err |-> "GreetingNoAuthMode",
                       auth_mode |-> "None"]
  ELSE IF ls[1] # STR_HYRCON_READY
    THEN [ok |-> FALSE, err |-> "UnexpectedBanner", auth_mode |-> "None"]
  ELSE IF ls[2] = STR_AUTH_REQUIRED
    THEN [ok |-> TRUE, err |-> "None", auth_mode |-> "Required"]
  ELSE IF ls[2] = STR_AUTH_OPTIONAL
    THEN [ok |-> TRUE, err |-> "None", auth_mode |-> "Optional"]
  ELSE [ok |-> FALSE, err |-> "UnknownAuthMode", auth_mode |-> "None"]

\* Greeting::requires_auth
requires_auth(greeting) == greeting.auth_mode = "Required"

\* HyrconClient::connect after its read_block: the client, or the error.
HyrconConnectResult(block) ==
  LET greeting == hyrcon_from_lines(block)
  IN IF greeting.ok THEN OkClient(greeting.auth_mode) ELSE Err(greeting.err)

\* What the call in progress does with the block read_block returned.
HyrconBlockDone(block) ==
  IF op = "connect"
    THEN [result |-> HyrconConnectResult(block), closed |-> FALSE]
  ELSE IF op = "authenticate"
    THEN [result |-> HyrconAuthResult(block), closed |-> closed]
  ELSE IF op = "send_command" THEN HyrconCommandResult(block)
  ELSE HyrconQuitResult(block)

\* Where a call leaves the session: a connect that fails leaves no client.
AfterCall(ok) == IF op = "connect" /\ ~ok THEN "no_client" ELSE "idle"

\* read_block, one read_line and the turn of the loop on it; when the block
\* is complete, the rest of the call that asked for it.
HyrconReadLine(in) ==
  /\ backend = "Hyrcon"
  /\ pc = "block"
  /\ LET r == read_line(in)
     IN /\ rd_eof' = (rd_eof \/ (in.tail = "Eof" /\ FirstLf(in.bytes, 1) = 0))
        /\ IF ~r.ok
             THEN /\ result' = Err(r.err)
                  /\ pc' = AfterCall(FALSE)
                  /\ UNCHANGED << lines, received, closed >>
           ELSE /\ received' = Record(received, r.line, MaxBlockLines + 1)
                /\ IF r.line = STR_DOT
                     THEN LET d == HyrconBlockDone(lines)
                          IN /\ result' = d.result
                             /\ closed' = d.closed
                             /\ pc' = AfterCall(d.result.ok)
                             /\ UNCHANGED lines
                     ELSE /\ lines' = Record(lines, r.line, MaxBlockLines)
                          /\ UNCHANGED << pc, result, closed >>
  /\ UNCHANGED << codec_vars, util_vars, backend, silent,
                  authed, next_request_id, op, auth_id,
                  command_id, sentinel_id, payload_lines, arg, sent, pre,
                  authed_by, wr_shut >>

---------------------------------------------------------------------------
(* RconClient::connect.                                                    *)

\* How TcpStream::connect under its deadline ends; a silent peer accepts no
\* connection.
ConnectOutcomes ==
  Returning({await_timeout(o) :
               o \in IF silent THEN {"Io", "Blocked"}
                               ELSE {"Ok", "Io", "Blocked"}})

\* How set_nodelay ends.
NodelayOutcomes == {"Ok", "Io"}

\* RconClient::connect is called for the protocol `backend`: TcpStream::connect
\* is started.
Connect ==
  /\ pc = "unconnected"
  /\ Enter("connect", << >>)
  /\ pc' = "tcp_connect"
  /\ result' = Pending
  /\ sent' = << >>
  /\ UNCHANGED << codec_vars, util_vars, backend, silent,
                  closed, authed, next_request_id, auth_id,
                  command_id, sentinel_id, authed_by, rd_eof, wr_shut >>

\* HyrconClient::connect and SourceClient::connect from the end of
\* TcpStream::connect: set_nodelay, then the Source client is constructed and
\* the Hyrcon client goes on to read the greeting.
TcpConnectDone ==
  /\ pc = "tcp_connect"
  /\ \E t \in ConnectOutcomes :
       IF t # "Ok"
         THEN /\ result' = Err(t)
              /\ pc' = "no_client"
              /\ UNCHANGED << closed, authed, next_request_id >>
         ELSE \E n \in NodelayOutcomes :
                IF n # "Ok"
                  THEN /\ result' = Err(n)
                       /\ pc' = "no_client"
                       /\ UNCHANGED << closed, authed, next_request_id >>
                ELSE IF backend = "Source"
                  THEN /\ authed' = FALSE
                       /\ next_request_id' = 1
                       /\ closed' = FALSE
                       /\ result' = OkClient("Required")
                       /\ pc' = "idle"
                ELSE /\ pc' = "block"
                     /\ UNCHANGED << result, closed, authed,
                                     next_request_id >>
  /\ UNCHANGED << codec_vars, util_vars, backend, silent,
                  op, auth_id, command_id, sentinel_id,
                  payload_lines, lines, arg, sent, received, pre, authed_by,
                  rd_eof, wr_shut >>

\* The peer falls silent: from now on it sends nothing.
PeerFallsSilent ==
  /\ ~silent
  /\ silent' = TRUE
  /\ UNCHANGED << codec_vars, util_vars, backend, closed, authed, next_request_id, pc, op, auth_id,
                  command_id, sentinel_id, payload_lines, lines, arg, result,
                  sent, received, pre, authed_by, rd_eof, wr_shut >>

---------------------------------------------------------------------------
(* The input helpers of util.rs (text is a sequence of bytes; an           *)
(* Option<String> is << >> for None and << s >> for Some(s)).              *)

\* str::trim_start_matches(set)
RECURSIVE TrimStartMatches(_, _)
TrimStartMatches(s, set) ==
  IF s # << >> /\ s[1] \in set THEN TrimStartMatches(Tail(s), set) ELSE s

\* str::trim_end_matches(set)
RECURSIVE TrimEndMatches(_, _)
TrimEndMatches(s, set) ==
  IF s # << >> /\ s[Len(s)] \in set
    THEN TrimEndMatches(SubSeq(s, 1, Len(s) - 1), set)
    ELSE s

\* str::trim_matches(set)
trim_matches(s, set) == TrimEndMatches(TrimStartMatches(s, set), set)

\* u8::to_ascii_lowercase
to_ascii_lowercase(c) == IF c \in 65..90 THEN c + 32 ELSE c

\* str::eq_ignore_ascii_case
eq_ignore_ascii_case(a, b) ==
  /\ Len(a) = Len(b)
  /\ \A i \in 1..Len(a) : to_ascii_lowercase(a[i]) = to_ascii_lowercase(b[i])

STR_QUIT_LOWER == <<113, 117, 105, 116>>                \* "quit"
STR_EXIT_LOWER == <<101, 120, 105, 116>>                \* "exit"

\* sanitize taking CR and LF off the end of the line only.
sanitize_TrailingOnly(line) ==
  LET trimmed == TrimEndMatches(line, {CR, LF})
  IN IF TrimIsEmpty(trimmed) THEN << >> ELSE << trimmed >>

\* command::sanitize
sanitize(line) ==
  LET trimmed == trim_matches(line, {CR, LF})
  IN IF TrimIsEmpty(trimmed) THEN << >> ELSE << trimmed >>

\* command::is_exit_command
is_exit_command(line) ==
  LET cmd == sanitize(line)
  IN /\ cmd # << >>
     /\ \/ eq_ignore_ascii_case(cmd[1], STR_QUIT_LOWER)
        \/ eq_ignore_ascii_case(cmd[1], STR_EXIT_LOWER)

\* No read_packet has returned yet.
NotDecoded == ReadErr("NotRead")

\* A helper that has not returned yet, and one that returned v.
NotReturned(v) == [returned |-> FALSE, value |-> v]
ReturnedValue(v) == [returned |-> TRUE, value |-> v]

\* The codec and the helpers before anything was given to them.
PureIdle ==
  /\ frame = NoPacket
  /\ wire = << >>
  /\ decoded = NotDecoded
  /\ consumed = 0
  /\ input = << >>
  /\ sanitized = NotReturned(<< >>)
  /\ is_exit = NotReturned(FALSE)

---------------------------------------------------------------------------
(* The wire codec on its own: write_packet's bytes put in a stream, frames *)
(* a peer puts in the stream, and read_packet reading the stream.          *)

\* The longest payload given to write_packet.
MaxPayload == 4096

Repeat(c, n) == [i \in 1..n |-> c]

CodecIds == { 0, 1, -1, 256, I32Max, I32Min }
CodecKinds == { SERVERDATA_RESPONSE_VALUE, SERVERDATA_AUTH_RESPONSE,
                SERVERDATA_AUTH, -2 }

\* Payloads: empty, "c", two lines, a two-byte character, one that makes the
\* length's second byte non-zero, the longest, and one holding a NUL.
CodecPayloads ==
  { << >>, PayloadC, PayloadAB, <<195, 169>>, Repeat(120, 250),
    Repeat(120, MaxPayload), <<97, 0>> }

\* What follows the frame in the stream: nothing, a byte, another frame.
Following == { << >>, <<7>>, PacketBytes(1, 0, << >>) }

\* Payload bytes that are not UTF-8: a lone byte 255, a two-byte character
\* cut short, an overlong form, a surrogate.
NonTextPayloads == { <<255>>, <<195>>, <<192, 128>>, <<237, 160, 128>> }

\* Frames a peer sends that are not what write_packet builds: declared
\* lengths 9, 0, -1 and i32::MIN with bytes after them, terminators that are
\* not both zero, payloads that are not UTF-8 (a lone byte 255, a cut two-byte
\* character, an overlong form, a surrogate), and two well-formed frames.
PeerFrames ==
  { <<9, 0, 0, 0,  1, 0, 0, 0,  0, 0, 0, 0,  0>>,
    <<0, 0, 0, 0,  7, 7>>,
    <<255, 255, 255, 255,  7, 7>>,
    <<0, 0, 0, 128,  7, 7>>,
    <<10, 0, 0, 0,  1, 0, 0, 0,  0, 0, 0, 0,  0, 1>>,
    <<10, 0, 0, 0,  1, 0, 0, 0,  0, 0, 0, 0,  1, 0>>,
    <<11, 0, 0, 0,  1, 0, 0, 0,  0, 0, 0, 0,  99,  1, 1>>,
    <<11, 0, 0, 0,  1, 0, 0, 0,  0, 0, 0, 0,  255,  0, 0>>,
    <<11, 0, 0, 0,  1, 0, 0, 0,  0, 0, 0, 0,  195,  0, 0>>,
    <<12, 0, 0, 0,  1, 0, 0, 0,  0, 0, 0, 0,  192, 128,  0, 0>>,
    <<13, 0, 0, 0,  1, 0, 0, 0,  0, 0, 0, 0,  237, 160, 128,  0, 0>>,
    <<10, 0, 0, 0,  1, 0, 0, 0,  0, 0, 0, 0,  0, 0>>,
    <<12, 0, 0, 0,  1, 0, 0, 0,  0, 0, 0, 0,  195, 169,  0, 0>> }

\* write_packet with a writer that takes the bytes, which then stand in the
\* stream, followed by rest; a rejected payload writes nothing.
CodecWrite(id, kind, payload, rest) ==
  /\ pc = "codec"
  /\ frame' = Packet(id, kind, payload)
  /\ LET w == write_packet(id, kind, payload)
     IN IF w.ok
          THEN wire' = w.bytes \o rest /\ pc' = "written"
          ELSE wire' = << >> /\ pc' = "rejected"
  /\ decoded' = NotDecoded
  /\ consumed' = 0
  /\ UNCHANGED << util_vars, backend, silent, closed, authed,
                  next_request_id, op, auth_id, command_id, sentinel_id,
                  payload_lines, lines, arg, result, sent, received, pre,
                  authed_by, rd_eof, wr_shut >>

\* The peer puts a frame of its own making in the stream.
CodecPeerFrame(f) ==
  /\ pc = "codec"
  /\ frame' = NoPacket
  /\ wire' = f
  /\ pc' = "peer_frame"
  /\ decoded' = NotDecoded
  /\ consumed' = 0
  /\ UNCHANGED << util_vars, backend, silent, closed, authed,
                  next_request_id, op, auth_id, command_id, sentinel_id,
                  payload_lines, lines, arg, result, sent, received, pre,
                  authed_by, rd_eof, wr_shut >>

\* read_packet on the stream, which ends after the bytes it holds.
CodecRead ==
  /\ pc \in {"written", "peer_frame"}
  /\ decoded = NotDecoded
  /\ LET in == [bytes |-> wire, tail |-> "Eof"]
     IN /\ decoded' = read_packet(in)
        /\ consumed' = BytesTaken(in)
  /\ UNCHANGED << util_vars, backend, silent, closed, authed,
                  next_request_id, pc, op, auth_id, command_id, sentinel_id,
                  payload_lines, lines, arg, result, sent, received, pre,
                  authed_by, rd_eof, wr_shut, frame, wire >>

InitCodec ==
  /\ backend = "Source"
  /\ closed = FALSE
  /\ authed = FALSE
  /\ next_request_id = 1
  /\ pc = "codec"
  /\ op = "none"
  /\ auth_id = 0
  /\ command_id = 0
  /\ sentinel_id = 0
  /\ payload_lines = << >>
  /\ lines = << >>
  /\ arg = << >>
  /\ result = Pending
  /\ sent = << >>
  /\ received = << >>
  /\ pre = [closed |-> FALSE, authed |-> FALSE, next_request_id |-> 1]
  /\ authed_by = "connect"
  /\ rd_eof = FALSE
  /\ wr_shut = FALSE
  /\ silent = FALSE
  /\ PureIdle

NextCodec ==
  \/ \E id \in CodecIds, kind \in CodecKinds, payload \in CodecPayloads,
        rest \in Following : CodecWrite(id, kind, payload, rest)
  \/ \E f \in PeerFrames : CodecPeerFrame(f)
  \/ CodecRead

SpecCodec == InitCodec /\ [][NextCodec]_vars

---------------------------------------------------------------------------
(* The input helpers on their own: a line, and the two helpers applied to  *)
(* it.                                                                     *)

\* The most characters of white space put before and after a word.
MaxPad == 2

\* Runs of CR, LF, space and tab, up to MaxPad long.
Pads == UNION { [1..n -> {CR, LF, 32, 9}] : n \in 0..MaxPad }

\* "", "quit", "QUIT", "Exit", "exit", "quiet", "say hello", "a" LF "b",
\* "qu it".
Words ==
  { << >>, STR_QUIT_LOWER, STR_QUIT, <<69, 120, 105, 116>>, STR_EXIT_LOWER,
    <<113, 117, 105, 101, 116>>,
    <<115, 97, 121, 32, 104, 101, 108, 108, 111>>,
    <<97, 10, 98>>, <<113, 117, 32, 105, 116>> }

Lines == { before \o word \o after : before \in Pads, word \in Words,
                                      after \in Pads }

\* sanitize(input)
Sanitize ==
  /\ pc = "util"
  /\ ~sanitized.returned
  /\ sanitized' = ReturnedValue(sanitize(input))
  /\ UNCHANGED << codec_vars, input, is_exit, backend, silent, closed,
                  authed, next_request_id, pc, op, auth_id, command_id,
                  sentinel_id, payload_lines, lines, arg, result, sent,
                  received, pre, authed_by, rd_eof, wr_shut >>

\* is_exit_command(input)
IsExitCommand ==
  /\ pc = "util"
  /\ ~is_exit.returned
  /\ is_exit' = ReturnedValue(is_exit_command(input))
  /\ UNCHANGED << codec_vars, input, sanitized, backend, silent, closed,
                  authed, next_request_id, pc, op, auth_id, command_id,
                  sentinel_id, payload_lines, lines, arg, result, sent,
                  received, pre, authed_by, rd_eof, wr_shut >>

InitUtil ==
  /\ backend = "Hyrcon"
  /\ closed = FALSE
  /\ authed = FALSE
  /\ next_request_id = 0
  /\ pc = "util"
  /\ op = "none"
  /\ auth_id = 0
  /\ command_id = 0
  /\ sentinel_id = 0
  /\ payload_lines = << >>
  /\ lines = << >>
  /\ arg = << >>
  /\ result = Pending
  /\ sent = << >>
  /\ received = << >>
  /\ pre = [closed |-> FALSE, authed |-> FALSE, next_request_id |-> 0]
  /\ authed_by = "connect"
  /\ rd_eof = FALSE
  /\ wr_shut = FALSE
  /\ silent = FALSE
  /\ frame = NoPacket
  /\ wire = << >>
  /\ decoded = NotDecoded
  /\ consumed = 0
  /\ input \in Lines
  /\ sanitized = NotReturned(<< >>)
  /\ is_exit = NotReturned(FALSE)

NextUtil == Sanitize \/ IsExitCommand

SpecUtil == InitUtil /\ [][NextUtil]_vars

---------------------------------------------------------------------------
(* The session after connect, and its steps.                               *)

\* The fields of the client connect constructs; the Hyrcon client has no
\* request-id counter.
Init ==
  /\ backend \in {"Hyrcon", "Source"}
  /\ closed = FALSE
  /\ authed = FALSE
  /\ next_request_id = (IF backend = "Source" THEN 1 ELSE 0)
  /\ pc = "idle"
  /\ op = "none"
  /\ auth_id = 0
  /\ command_id = 0
  /\ sentinel_id = 0
  /\ payload_lines = << >>
  /\ lines = << >>
  /\ arg = << >>
  /\ result = Pending
  /\ sent = << >>
  /\ received = << >>
  /\ pre = [closed |-> FALSE, authed |-> FALSE,
            next_request_id |-> next_request_id]
  /\ authed_by = "connect"
  /\ rd_eof = FALSE
  /\ wr_shut = FALSE
  /\ silent = FALSE
  /\ PureIdle

Next ==
  \/ \E p \in Passwords : SourceAuthenticate(p)
  \/ \E in \in SourceInputs : SourceAuthRead(in)
  \/ \E c \in Commands : SourceSendCommand(c)
  \/ \E w \in WriteOutcomes : SourceWriteSentinel(w)
  \/ \E in \in SourceInputs : SourceCollectRead(in)
  \/ SourceQuit
  \/ \E p \in Passwords : HyrconAuthenticate(p)
  \/ \E c \in Commands : HyrconSendCommand(c)
  \/ HyrconQuit
  \/ \E in \in HyrconInputs : HyrconReadLine(in)

Spec == Init /\ [][Next]_vars

---------------------------------------------------------------------------
(* RconClient::connect alone, from before the call.                        *)

InitConnect ==
  /\ backend \in {"Hyrcon", "Source"}
  /\ closed = FALSE
  /\ authed = FALSE
  /\ next_request_id = 0
  /\ pc = "unconnected"
  /\ op = "none"
  /\ auth_id = 0
  /\ command_id = 0
  /\ sentinel_id = 0
  /\ payload_lines = << >>
  /\ lines = << >>
  /\ arg = << >>
  /\ result = Pending
  /\ sent = << >>
  /\ received = << >>
  /\ pre = [closed |-> FALSE, authed |-> FALSE, next_request_id |-> 0]
  /\ authed_by = "connect"
  /\ rd_eof = FALSE
  /\ wr_shut = FALSE
  /\ silent = FALSE
  /\ PureIdle

\* The read_block of the greeting.
GreetingReadLine ==
  op = "connect" /\ \E in \in HyrconInputs : HyrconReadLine(in)

NextConnect ==
  \/ Connect
  \/ TcpConnectDone
  \/ GreetingReadLine

SpecConnect == InitConnect /\ [][NextConnect]_vars

---------------------------------------------------------------------------
(* The Source client from before connect, and late in a session, when the  *)
(* request-id counter is about to pass the 32-bit boundary.                *)

InitWrap ==
  /\ backend = "Source"
  /\ closed = FALSE
  /\ authed \in BOOLEAN
  /\ next_request_id = (IF authed THEN I32Max - 1 ELSE 0)
  /\ pc = (IF authed THEN "idle" ELSE "unconnected")
  /\ op = "none"
  /\ auth_id = 0
  /\ command_id = 0
  /\ sentinel_id = 0
  /\ payload_lines = << >>
  /\ lines = << >>
  /\ arg = << >>
  /\ result = Pending
  /\ sent = << >>
  /\ received = << >>
  /\ pre = [closed |-> FALSE, authed |-> authed,
            next_request_id |-> next_request_id]
  /\ authed_by = (IF authed THEN "authenticate" ELSE "connect")
  /\ rd_eof = FALSE
  /\ wr_shut = FALSE
  /\ silent = FALSE
  /\ PureIdle

NextWrap ==
  \/ Connect
  \/ TcpConnectDone
  \/ \E p \in Passwords : SourceAuthenticate(p)
  \/ \E in \in SourceInputs : SourceAuthRead(in)
  \/ \E c \in Commands : SourceSendCommand(c)
  \/ \E w \in WriteOutcomes : SourceWriteSentinel(w)
  \/ \E in \in SourceInputs : SourceCollectRead(in)
  \/ SourceQuit

SpecWrap == InitWrap /\ [][NextWrap]_vars

---------------------------------------------------------------------------
(* The Source client later still: the counter has passed the 32-bit        *)
(* boundary and has come up through the negative ids to -3.                *)

InitLate ==
  /\ backend = "Source"
  /\ closed = FALSE
  /\ authed \in BOOLEAN
  /\ next_request_id = -3
  /\ pc = "idle"
  /\ op = "none"
  /\ auth_id = 0
  /\ command_id = 0
  /\ sentinel_id = 0
  /\ payload_lines = << >>
  /\ lines = << >>
  /\ arg = << >>
  /\ result = Pending
  /\ sent = << >>
  /\ received = << >>
  /\ pre = [closed |-> FALSE, authed |-> authed,
            next_request_id |-> next_request_id]
  /\ authed_by = (IF authed THEN "authenticate" ELSE "connect")
  /\ rd_eof = FALSE
  /\ wr_shut = FALSE
  /\ silent = FALSE
  /\ PureIdle

NextLate ==
  \/ \E p \in Passwords : SourceAuthenticate(p)
  \/ \E in \in SourceInputs : SourceAuthRead(in)
  \/ \E c \in Commands : SourceSendCommand(c)
  \/ \E w \in WriteOutcomes : SourceWriteSentinel(w)
  \/ \E in \in SourceInputs : SourceCollectRead(in)
  \/ SourceQuit

SpecLate == InitLate /\ [][NextLate]_vars

---------------------------------------------------------------------------
(* A Source session in which an earlier command's replies were left        *)
(* unread: authenticate took the id 1; then send_command("say") wrote its  *)
(* command (id 2) and its sentinel (id 3) and its first read timed out.    *)
(* From there on the caller sends commands and the peer, besides the rest, *)
(* sends the late replies to the earlier ids.                              *)

STR_SAY == <<115, 97, 121>>                             \* "say"

InitStale ==
  /\ backend = "Source"
  /\ closed = FALSE
  /\ authed = TRUE
  /\ next_request_id = 4
  /\ pc = "idle"
  /\ op = "send_command"
  /\ auth_id = 1
  /\ command_id = 2
  /\ sentinel_id = 3
  /\ payload_lines = << >>
  /\ lines = << >>
  /\ arg = STR_SAY
  /\ result = ErrAt("Timeout", "length")
  /\ sent = << SocketOp("write",
                        PacketBytes(2, SERVERDATA_EXECCOMMAND, STR_SAY), "Ok"),
               SocketOp("write",
                        PacketBytes(3, SERVERDATA_EXECCOMMAND, << >>), "Ok") >>
  /\ received = << >>
  /\ pre = [closed |-> FALSE, authed |-> TRUE, next_request_id |-> 2]
  /\ authed_by = "authenticate"
  /\ rd_eof = FALSE
  /\ wr_shut = FALSE
  /\ silent = FALSE
  /\ PureIdle

\* The ids earlier send_command calls of this session allocated: those from
\* 2 up to the counter's value when the present call was entered.
EarlierIds == 2..(pre.next_request_id - 1)

\* Late replies to earlier commands and sentinels.
StalePackets ==
  { Packet(i, SERVERDATA_RESPONSE_VALUE, p) :
      i \in EarlierIds, p \in {<< >>, PayloadC} }

\* send_command's loop reads a late reply.
StaleCollectRead ==
  /\ Len(received) < MaxReads
  /\ ~rd_eof
  /\ \E p \in StalePackets :
       SourceCollectRead([bytes |-> PacketBytes(p.id, p.kind, p.payload),
                          tail |-> "Timeout"])

NextStale ==
  \/ \E c \in Commands : SourceSendCommand(c)
  \/ \E w \in WriteOutcomes : SourceWriteSentinel(w)
  \/ \E in \in SourceInputs : SourceCollectRead(in)
  \/ StaleCollectRead

SpecStale == InitStale /\ [][NextStale]_vars

---------------------------------------------------------------------------
(* The claims.                                                             *)

IsSource == backend = "Source"
Returned == pc = "idle" /\ op # "none"
SessionUnchanged ==
  /\ closed = pre.closed
  /\ authed = pre.authed
  /\ next_request_id = pre.next_request_id

Last(q) == q[Len(q)]
Front(q) == SubSeq(q, 1, Len(q) - 1)

\* C1: in both backends a send_command entered with closed = true returns
\* at once with the session-closed error, has handed nothing to the socket
\* writer, and leaves closed, authed and the request-id counter as they were.
C1_ClosedRejectsSendCommand ==
  (op = "send_command" /\ pre.closed) =>
     /\ pc = "idle"
     /\ result = Err("SessionClosed")
     /\ sent = << >>
     /\ SessionUnchanged

\* C1's case: a closed, authenticated Source session refused a command.
C1_Witness ==
  /\ IsSource
  /\ op = "send_command"
  /\ pre.closed
  /\ pre.authed
  /\ result = Err("SessionClosed")

\* C2: an authenticate entered with closed = true never returns Success.
C2_ClosedAuthenticateNeverSucceeds ==
  (op = "authenticate" /\ pre.closed) =>
     ~(result.ok /\ result.outcome = "Success")

\* C3: a Source send_command entered with authed = false returns at once
\* with an error, has written no packet, allocated no request id and changed
\* no flag.
C3_SourceUnauthenticatedRejected ==
  (IsSource /\ op = "send_command" /\ ~pre.authed) =>
     /\ pc = "idle"
     /\ result \in {Err("SessionClosed"), Err("NotAuthenticated")}
     /\ sent = << >>
     /\ SessionUnchanged

\* C3's case: a command refused for lack of authentication on a session that
\* an earlier send_command deauthenticated.
C3_Witness ==
  /\ IsSource
  /\ op = "send_command"
  /\ result = Err("NotAuthenticated")
  /\ authed_by = "send_command"

\* C4: when a call returns a protocol-violation error the session is closed.
C4_ViolationCloses ==
  (Returned /\ result.err \in ProtocolViolations) => closed

\* C5: a Source authenticate returns an outcome only on an AUTH_RESPONSE
\* whose id is the request's id or -1; an AUTH_RESPONSE with another id does
\* not end the loop.
C5_AuthEndsOnlyOnDecisiveId ==
  (IsSource /\ op = "authenticate" /\ Returned /\ result.ok) =>
     /\ received # << >>
     /\ Last(received).kind = SERVERDATA_AUTH_RESPONSE
     /\ Last(received).id \in {auth_id, -1}

Decoded(bytes) == read_packet([bytes |-> bytes, tail |-> "Eof"])

\* C7: a Source send_command writes at most two packets: first an EXECCOMMAND
\* with the command's id and text, then, only after that write succeeded, an
\* EXECCOMMAND with another id and an empty payload; it reads (and returns a
\* response) only after both writes succeeded.
C7_CommandThenSentinel ==
  (IsSource /\ op = "send_command") =>
     /\ Len(sent) <= 2
     /\ \A i \in 1..(Len(sent) - 1) : sent[i].w = "Ok"
     /\ Len(sent) >= 1 =>
          /\ Decoded(sent[1].bytes).ok
          /\ Decoded(sent[1].bytes).packet =
               Packet(command_id, SERVERDATA_EXECCOMMAND, arg)
     /\ Len(sent) = 2 =>
          /\ Decoded(sent[2].bytes).ok
          /\ Decoded(sent[2].bytes).packet =
               Packet(sentinel_id, SERVERDATA_EXECCOMMAND, << >>)
          /\ sentinel_id # command_id
     /\ (pc = "sentinel") => (Len(sent) = 1 /\ received = << >>)
     /\ (pc = "collect" \/ received # << >> \/ result.ok) =>
          (Len(sent) = 2 /\ sent[2].w = "Ok")

\* C7's case: a command that returned its response.
C7_Witness ==
  /\ IsSource
  /\ op = "send_command"
  /\ Returned
  /\ result.ok
  /\ Len(sent) = 2

\* The lines of a text: its pieces between LFs (a piece after the last LF
\* counts when it is not empty), each without its trailing CRs.
LineEnds(s) ==
  {i \in 1..Len(s) : s[i] = LF}
  \cup (IF s # << >> /\ s[Len(s)] # LF THEN {Len(s) + 1} ELSE {})
NthEnd(s, k) ==
  CHOOSE e \in LineEnds(s) : Cardinality({x \in LineEnds(s) : x < e}) = k - 1
LineStart(s, k) == IF k = 1 THEN 1 ELSE NthEnd(s, k - 1) + 1
WithoutTrailingCr(t) ==
  LET n == CHOOSE m \in 0..Len(t) :
             /\ m = 0 \/ t[m] # CR
             /\ \A j \in (m + 1)..Len(t) : t[j] = CR
  IN SubSeq(t, 1, n)
LinesOf(s) ==
  [k \in 1..Cardinality(LineEnds(s)) |->
     WithoutTrailingCr(SubSeq(s, LineStart(s, k), NthEnd(s, k) - 1))]

\* The lines of the RESPONSE_VALUE packets of rs that carry the command's id,
\* in the order of rs.
RECURSIVE CommandLines(_)
CommandLines(rs) ==
  IF rs = << >> THEN << >>
  ELSE CommandLines(Front(rs))
         \o (IF Last(rs).kind = SERVERDATA_RESPONSE_VALUE
                /\ Last(rs).id = command_id
               THEN LinesOf(Last(rs).payload)
               ELSE << >>)

\* C8: a Source send_command that succeeds returns Response{Ok, error None}
\* whose payload is the lines of the RESPONSE_VALUE packets with the
\* command's id that arrived before the sentinel's reply, in arrival order;
\* the other packets that arrived add nothing.
C8_PayloadIsCommandLines ==
  (IsSource /\ op = "send_command" /\ Returned /\ result.ok) =>
     /\ received # << >>
     /\ Last(received).id = sentinel_id
     /\ result = OkResponse("Ok", CommandLines(Front(received)), << >>)

\* C8's case: two packets of the command, then the sentinel's reply.
C8_Witness ==
  /\ IsSource
  /\ op = "send_command"
  /\ Returned
  /\ result.ok
  /\ Len(received) = 3
  /\ received[1] = Packet(command_id, SERVERDATA_RESPONSE_VALUE, PayloadAB)
  /\ received[2] = Packet(command_id, SERVERDATA_RESPONSE_VALUE, PayloadC)
  /\ result.payload = << <<97>>, <<98>>, <<99>> >>

\* C9: while a Source send_command collects, a packet with the sentinel's id
\* ends the call: with a response if it is an empty RESPONSE_VALUE, else with
\* the sentinel protocol violation, its payload not among the lines; and the
\* call returns a response on no other packet.
C9_SentinelEndsLoop ==
  (IsSource /\ op = "send_command" /\ received # << >>) =>
     /\ \A i \in 1..(Len(received) - 1) : received[i].id # sentinel_id
     /\ Last(received).id = sentinel_id =>
          /\ Returned
          /\ payload_lines = CommandLines(Front(received))
          /\ IF Last(received).kind # SERVERDATA_RESPONSE_VALUE
               THEN result = Err("SentinelKind")
             ELSE IF Last(received).payload # << >>
               THEN result = Err("SentinelPayload")
             ELSE result.ok
     /\ result.ok =>
          /\ Last(received).id = sentinel_id
          /\ Last(received).kind = SERVERDATA_RESPONSE_VALUE
          /\ Last(received).payload = << >>

\* C9's case: a RESPONSE_VALUE with the sentinel's id and a payload, after
\* lines of the command were collected.
C9_Witness ==
  /\ IsSource
  /\ op = "send_command"
  /\ result = Err("SentinelPayload")
  /\ payload_lines # << >>
  /\ Last(received) = Packet(sentinel_id, SERVERDATA_RESPONSE_VALUE, PayloadC)

\* C10, in each state: an AUTH_RESPONSE with id -1 read by send_command's
\* loop ends the call with the deauthentication error, which carries no
\* payload, and authed = false; and a Source send_command entered with
\* authed = false fails.
C10_DeauthState ==
  /\ (IsSource /\ op = "send_command" /\ received # << >>
      /\ Last(received).kind = SERVERDATA_AUTH_RESPONSE
      /\ Last(received).id = -1) =>
        /\ Returned
        /\ result = Err("Deauth")
        /\ ~authed
  /\ (IsSource /\ op = "send_command" /\ ~pre.authed) =>
        (Returned /\ ~result.ok)

\* C10, in each step: authed becomes true only in the step in which an
\* authenticate returns Success.
C10_AuthedOnlyByAuthenticate ==
  (~authed /\ authed') =>
     (op' = "authenticate" /\ pc' = "idle" /\ result' = OkAuth("Success"))

\* C10: an AUTH_RESPONSE with id -1 arriving while a Source send_command
\* collects fails the call without a payload and clears authed, and every
\* later send_command fails until an authenticate returns Success.
C10_DeauthFailsCommands ==
  [] C10_DeauthState /\ [][C10_AuthedOnlyByAuthenticate]_vars

\* C10's case: the deauthentication arrived after lines were collected.
C10_Witness ==
  /\ IsSource
  /\ op = "send_command"
  /\ result = Err("Deauth")
  /\ payload_lines # << >>
  /\ pre.authed
  /\ ~authed

---------------------------------------------------------------------------
(* The whole life of a client, connect included, against a peer that may   *)
(* fall silent.                                                            *)

NextLife ==
  \/ Connect
  \/ TcpConnectDone
  \/ PeerFallsSilent
  \/ Next

SpecLife == InitConnect /\ [][NextLife]_vars

\* The steps of a call that is awaiting a socket operation: the operation's
\* completion resumes the call.
AwaitStep ==
  \/ TcpConnectDone
  \/ \E in \in SourceInputs : SourceAuthRead(in)
  \/ \E w \in WriteOutcomes : SourceWriteSentinel(w)
  \/ \E in \in SourceInputs : SourceCollectRead(in)
  \/ \E in \in HyrconInputs : HyrconReadLine(in)

\* The runtime resumes a call whose socket operation has completed.
LiveSpec == SpecLife /\ WF_vars(AwaitStep)

---------------------------------------------------------------------------
(* A slow peer: one that, besides all the rest, goes on sending input the  *)
(* loops ignore, each item inside the deadline of its read.                *)

\* RESPONSE_VALUE packets, which authenticate's loop ignores.
IgnoredInAuth ==
  { Packet(auth_id, SERVERDATA_RESPONSE_VALUE, p) : p \in {<< >>, PayloadC} }

\* Packets with neither the command's id nor the sentinel's, which
\* send_command's loop ignores.
IgnoredInCollect ==
  { Packet(WrappingDec(command_id), SERVERDATA_RESPONSE_VALUE, p) :
      p \in {<< >>, PayloadC} }

\* Lines other than ".", which read_block's loop pushes and reads on: "hi"
\* and "ho".
IgnoredLines == { <<104, 105, LF>>, <<104, 111, LF>> }

SlowAuthRead ==
  \E p \in IgnoredInAuth :
    SourceAuthRead([bytes |-> PacketBytes(p.id, p.kind, p.payload),
                    tail |-> "Timeout"])

SlowCollectRead ==
  \E p \in IgnoredInCollect :
    SourceCollectRead([bytes |-> PacketBytes(p.id, p.kind, p.payload),
                       tail |-> "Timeout"])

SlowReadLine ==
  \E l \in IgnoredLines : HyrconReadLine([bytes |-> l, tail |-> "Timeout"])

NextSlow ==
  \/ Next
  \/ SlowAuthRead
  \/ SlowCollectRead
  \/ SlowReadLine

SpecSlow == Init /\ [][NextSlow]_vars

\* The steps of a call that is awaiting a socket operation, those on the slow
\* peer's input included.
SlowAwaitStep ==
  \/ AwaitStep
  \/ SlowAuthRead
  \/ SlowCollectRead
  \/ SlowReadLine

\* The runtime resumes a call whose socket operation has completed.
LiveSlowSpec == SpecSlow /\ WF_vars(SlowAwaitStep)

---------------------------------------------------------------------------
(* Claims C11 to C20.                                                      *)

\* The id after x in the 32-bit ring.
Succ32(x) == IF x = I32Max THEN I32Min ELSE x + 1

\* The request id of the i-th packet the call wrote.
SentId(i) == Decoded(sent[i].bytes).packet.id

\* The validation rules as the backends' contract states them.
BadPassword(p) == Contains(p, {CR, LF}) \/ (IsSource /\ Contains(p, {NUL}))
BadCommand(c) ==
  \/ \A i \in 1..Len(c) : c[i] \in {9, 10, 11, 12, 13, 32}
  \/ Contains(c, {CR, LF})
  \/ (IsSource /\ Contains(c, {NUL}))

\* The call in progress, or the last one, is a send_command that passed
\* every check made before the first write.
CommandPassed ==
  /\ op = "send_command"
  /\ ~pre.closed
  /\ IsSource => pre.authed
  /\ ~BadCommand(arg)

\* C11, the part on connect: the counter of a new Source client is 1.
C11_StartsAtOne ==
  (IsSource /\ op = "connect" /\ pc = "idle") => next_request_id = 1

\* C11, the part on authenticate: it allocates one id, the counter's value,
\* and the counter moves to the id's successor; a rejected password
\* allocates none.
C11_AuthenticateOneId ==
  (IsSource /\ op = "authenticate") =>
     IF BadPassword(arg)
       THEN sent = << >> /\ next_request_id = pre.next_request_id
       ELSE /\ Len(sent) = 1
            /\ auth_id = pre.next_request_id
            /\ SentId(1) = auth_id
            /\ next_request_id = Succ32(auth_id)

\* C11, the part on calls that allocate nothing: a rejected send_command
\* and quit.
C11_OthersNoId ==
  (IsSource /\ (op = "quit" \/ (op = "send_command" /\ ~CommandPassed))) =>
     /\ \A i \in 1..Len(sent) : sent[i].call # "write"
     /\ next_request_id = pre.next_request_id

\* C11, the part on send_command as the code has it: the command's id is the
\* counter's value; the sentinel's id is allocated once the command's write
\* has succeeded and is the successor of the command's id.
C11_CommandThenSentinelId ==
  (IsSource /\ CommandPassed) =>
     /\ Len(sent) \in {1, 2}
     /\ command_id = pre.next_request_id
     /\ SentId(1) = command_id
     /\ Len(sent) = 1 => next_request_id = Succ32(command_id)
     /\ (Len(sent) = 1 /\ sent[1].w = "Ok") => pc = "sentinel"
     /\ Len(sent) = 2 =>
          /\ sent[1].w = "Ok"
          /\ sentinel_id = Succ32(command_id)
          /\ sentinel_id # command_id
          /\ SentId(2) = sentinel_id
          /\ next_request_id = Succ32(sentinel_id)

\* C11, the part on send_command as the claim has it: a send_command that
\* passed validation has, when it returns, allocated two consecutive ids.
C11_CommandTwoIds ==
  (IsSource /\ CommandPassed /\ Returned) =>
     /\ command_id = pre.next_request_id
     /\ sentinel_id = Succ32(command_id)
     /\ sentinel_id # command_id
     /\ next_request_id = Succ32(sentinel_id)

\* C11 as stated: Source request ids start at 1, each allocation returns the
\* counter's value and moves the counter to its successor, wrapping at the
\* 32-bit boundary; authenticate allocates one id and a send_command that
\* passes validation allocates exactly two consecutive ids.
C11_IdsAsClaimed ==
  /\ C11_StartsAtOne
  /\ C11_AuthenticateOneId
  /\ C11_OthersNoId
  /\ C11_CommandTwoIds

\* C11 as amended: Source request ids start at 1, each allocation returns the
\* counter's value and moves the counter to its successor, wrapping at the
\* 32-bit boundary; authenticate allocates one id; a send_command that passes
\* validation allocates the command's id and, only after the command's write
\* succeeded, the next id for the sentinel, so the two ids of a call differ.
C11_Ids ==
  /\ C11_StartsAtOne
  /\ C11_AuthenticateOneId
  /\ C11_OthersNoId
  /\ C11_CommandThenSentinelId

\* C11's case: the two ids of one command lie on the two sides of the
\* 32-bit boundary.
C11_Witness ==
  /\ IsSource
  /\ op = "send_command"
  /\ Returned
  /\ result.ok
  /\ command_id = I32Max
  /\ sentinel_id = I32Min
  /\ next_request_id = I32Min + 1

\* C12: when a read of read_packet (of the length prefix or of the frame's
\* body) fails at the end of the stream, the Source session is closed when
\* the error is returned; when it fails by the deadline or by another I/O
\* error, closed is as it was when the call was entered.
C12_EofCloses ==
  (IsSource /\ Returned /\ result.context \in {"length", "payload"}) =>
     /\ result.err \in {"Eof", "Timeout", "Io"}
     /\ result.err = "Eof" => closed
     /\ result.err # "Eof" => closed = pre.closed

\* C12's case: the stream ended inside the body of a frame, after the call
\* had read whole packets, and the open session is now closed.
C12_Witness ==
  /\ IsSource
  /\ op = "send_command"
  /\ Returned
  /\ result = ErrAt("Eof", "payload")
  /\ received # << >>
  /\ ~pre.closed
  /\ closed

\* The last call was rejected for its argument.
Rejected ==
  /\ pc = "idle"
  /\ \/ op = "send_command" /\ BadCommand(arg)
     \/ op = "authenticate" /\ BadPassword(arg)

\* C13, in each state: a send_command whose command is empty after trimming
\* or holds CR or LF (for Source also NUL), and an authenticate whose
\* password holds CR or LF (for Source also NUL), has returned an error, has
\* handed nothing to the socket's writer, and has left closed, authed and the
\* request-id counter as they were.
C13_RejectedState ==
  ((op = "send_command" /\ BadCommand(arg))
   \/ (op = "authenticate" /\ BadPassword(arg))) =>
     /\ Returned
     /\ ~result.ok
     /\ sent = << >>
     /\ SessionUnchanged

\* C13, in each step: on an open (for Source, authenticated) session the
\* valid command that follows a rejected call is written to the socket.
C13_NextCommandProceeds ==
  (Rejected /\ ~closed /\ (IsSource => authed)
   /\ op' = "send_command" /\ ~BadCommand(arg')) =>
     /\ Len(sent') = 1
     /\ sent'[1].call = "write"
     /\ IF IsSource
          THEN Decoded(sent'[1].bytes).packet =
                 Packet(next_request_id, SERVERDATA_EXECCOMMAND, arg')
          ELSE sent'[1].bytes = arg' \o <<LF>>

\* C13: in both backends a command or password that breaks a validation rule
\* is rejected before any byte is written, the session's fields are
\* unchanged, and a following valid command proceeds normally.
C13_RejectedBeforeWrite ==
  [] C13_RejectedState /\ [][C13_NextCommandProceeds]_vars

\* C13's case: an open, authenticated Source session, ids already allocated,
\* has rejected a command that holds a NUL.
C13_Witness ==
  /\ IsSource
  /\ op = "send_command"
  /\ arg = <<97, 0>>
  /\ Returned
  /\ ~result.ok
  /\ ~closed
  /\ authed
  /\ next_request_id > 1

IsHyrcon == backend = "Hyrcon"

\* The call has read a whole block: the last line it read is ".".
BlockRead == received # << >> /\ Last(received) = STR_DOT

\* The lines of the block the call has read.
Block == Front(received)

\* The line is "ERROR " followed by a message; the message.
HasErrorPrefix(l) == Len(l) >= 6 /\ \A i \in 1..6 : l[i] = STR_ERROR_PREFIX[i]
ErrorMessage(l) == [i \in 1..(Len(l) - 6) |-> l[i + 6]]

\* C14: a Hyrcon send_command that has read a non-empty block returns, for a
\* first line OK or ERR, a Response with that status; for BYE, Bye, and the
\* session is closed; for another first line, an error.  For OK and ERR, a
\* last line "ERROR <message>" is taken off and its message is the error,
\* else the error is None; the lines after the first that are left are the
\* payload, in order.
C14_CommandBlockParsed ==
  (IsHyrcon /\ op = "send_command" /\ BlockRead /\ Block # << >>) =>
     LET first == Head(Block)
         rest == Tail(Block)
         split == rest # << >> /\ HasErrorPrefix(Last(rest))
     IN /\ Returned
        /\ first \in {STR_OK, STR_ERR} =>
             /\ result.ok
             /\ result.outcome = "Response"
             /\ result.status = (IF first = STR_OK THEN "Ok" ELSE "Err")
             /\ result.error =
                  (IF split THEN << ErrorMessage(Last(rest)) >> ELSE << >>)
             /\ result.payload = (IF split THEN Front(rest) ELSE rest)
        /\ first = STR_BYE => (result = OkBye /\ closed)
        /\ first \notin {STR_OK, STR_ERR, STR_BYE} => ~result.ok

\* C14's case: the block OK, "ERROR x", "ERROR x": the first "ERROR x" stays
\* in the payload and the last one is the error.
C14_Witness ==
  /\ IsHyrcon
  /\ op = "send_command"
  /\ BlockRead
  /\ Block = << STR_OK, STR_ERROR_PREFIX \o <<120>>,
                STR_ERROR_PREFIX \o <<120>> >>
  /\ result = OkResponse("Ok", << STR_ERROR_PREFIX \o <<120>> >>, << <<120>> >>)

\* C15: a Hyrcon quit entered on an open session writes the line QUIT and
\* nothing else; when the write fails, that error is returned and nothing is
\* read; otherwise it reads one block: after BYE it returns Ok and the
\* session is closed, after OK or ERR it returns an error and the session is
\* closed, and when a read fails it returns that error.
C15_HyrconQuit ==
  (IsHyrcon /\ op = "quit" /\ ~pre.closed) =>
     /\ Len(sent) = 1
     /\ sent[1].call = "write"
     /\ sent[1].bytes = STR_QUIT \o <<LF>>
     /\ sent[1].w # "Ok" =>
          (Returned /\ result = Err(sent[1].w) /\ received = << >>)
     /\ \A i \in 1..(Len(received) - 1) : received[i] # STR_DOT
     /\ BlockRead => Returned
     /\ (BlockRead /\ Block # << >> /\ Head(Block) = STR_BYE) =>
          (result = OkUnit /\ closed)
     /\ (BlockRead /\ Block # << >> /\ Head(Block) \in {STR_OK, STR_ERR}) =>
          (~result.ok /\ closed)
     /\ (Returned /\ sent[1].w = "Ok" /\ ~BlockRead) =>
          result \in {Err("Timeout"), Err("Io"), Err("ServerClosed")}

\* C15's case: the peer answered QUIT with OK and a payload line; quit
\* returned the error and the session, open before, is closed.
C15_Witness ==
  /\ IsHyrcon
  /\ op = "quit"
  /\ ~pre.closed
  /\ BlockRead
  /\ Len(Block) = 2
  /\ Head(Block) = STR_OK
  /\ ~result.ok
  /\ closed

\* C16, in each state: a quit entered on a closed session has returned Ok
\* and has neither written, flushed, shut down nor read.
C16_ClosedQuitState ==
  (op = "quit" /\ pre.closed) =>
     /\ Returned
     /\ result = OkUnit
     /\ sent = << >>
     /\ received = << >>
     /\ SessionUnchanged

\* C16, in each step: a quit on a closed session changes no field of the
\* session and nothing about the socket.
C16_ClosedQuitStep ==
  (closed /\ pc = "idle" /\ op' = "quit") =>
     /\ pc' = "idle"
     /\ UNCHANGED << backend, closed, authed, next_request_id, rd_eof,
                     wr_shut >>

\* C16: quit on a closed session returns Ok in both backends without any
\* socket operation and without changing a session field.
C16_ClosedQuitNoOp ==
  [] C16_ClosedQuitState /\ [][C16_ClosedQuitStep]_vars

\* C16's case: the second quit of a Source session whose first quit
\* succeeded, so that the write half is shut down.
C16_Witness ==
  /\ IsSource
  /\ op = "quit"
  /\ pre.closed
  /\ wr_shut
  /\ result = OkUnit
  /\ sent = << >>

InCall == pc \in {"tcp_connect", "auth_wait", "sentinel", "collect", "block"}

\* C18: once the peer is silent, every call in progress (connect,
\* authenticate, send_command or quit) eventually returns.
C18_SilentPeerCallsReturn == [] ((silent /\ InCall) => <> ~InCall)

\* C18's case: a Source send_command that had read a packet of its answer
\* when the peer fell silent has returned by the deadline of its next read.
C18_Witness ==
  /\ silent
  /\ IsSource
  /\ op = "send_command"
  /\ received # << >>
  /\ Returned
  /\ result = ErrAt("Timeout", "length")

\* C19, in each state: a Hyrcon authenticate whose password holds no CR or
\* LF writes the line "AUTH <password>" and reads one block; it returns
\* Success when the block's first line is AUTH OK, Failure when it is
\* AUTH FAIL, and an error when it is anything else or the block is empty;
\* it returns an outcome on no other occasion and never changes closed.
C19_HyrconAuthState ==
  (IsHyrcon /\ op = "authenticate" /\ ~BadPassword(arg)) =>
     /\ Len(sent) = 1
     /\ sent[1].call = "write"
     /\ sent[1].bytes = STR_AUTH_PREFIX \o arg \o <<LF>>
     /\ \A i \in 1..(Len(received) - 1) : received[i] # STR_DOT
     /\ closed = pre.closed
     /\ result.ok => BlockRead
     /\ BlockRead =>
          /\ Returned
          /\ IF Block = << >> THEN ~result.ok
             ELSE IF Head(Block) = STR_AUTH_OK THEN result = OkAuth("Success")
             ELSE IF Head(Block) = STR_AUTH_FAIL
               THEN result = OkAuth("Failure")
             ELSE ~result.ok

\* C19, in each step: a valid command given to send_command on an open
\* Hyrcon session is written to the socket, whatever call came before.
C19_CommandAccepted ==
  (IsHyrcon /\ pc = "idle" /\ ~closed
   /\ op' = "send_command" /\ ~BadCommand(arg')) =>
     /\ Len(sent') = 1
     /\ sent'[1].call = "write"
     /\ sent'[1].bytes = arg' \o <<LF>>

\* C19: Hyrcon authenticate writes AUTH <password>, reads one block and
\* decides by its first line, leaves closed alone, and Hyrcon send_command
\* does not depend on authenticate.
C19_HyrconAuthenticate ==
  [] C19_HyrconAuthState /\ [][C19_CommandAccepted]_vars

\* C19's case: authenticate returned Failure on the block AUTH FAIL, "hi";
\* the session is open, and the step property covers the send_command that
\* follows.
C19_Witness ==
  /\ IsHyrcon
  /\ op = "authenticate"
  /\ Returned
  /\ BlockRead
  /\ Block = << STR_AUTH_FAIL, <<104, 105>> >>
  /\ result = OkAuth("Failure")
  /\ ~closed

\* The greeting block has two lines or more, the banner first and one of
\* the two auth modes second.
GreetingAccepted(block) ==
  /\ Len(block) >= 2
  /\ block[1] = STR_HYRCON_READY
  /\ block[2] \in {STR_AUTH_REQUIRED, STR_AUTH_OPTIONAL}

\* C20: when a Hyrcon connect has read its greeting block, it returns a
\* client exactly when the block has at least two lines, the first equal to
\* HYRCON READY and the second to AUTH REQUIRED or AUTH OPTIONAL; the
\* client's greeting requires auth exactly when the second line was AUTH
\* REQUIRED; on every other block connect returns an error and no client.
C20_GreetingParsed ==
  (IsHyrcon /\ op = "connect" /\ BlockRead) =>
     /\ GreetingAccepted(Block) =>
          /\ result.ok
          /\ pc = "idle"
          /\ requires_auth(result) <=> Block[2] = STR_AUTH_REQUIRED
     /\ ~GreetingAccepted(Block) =>
          /\ ~result.ok
          /\ pc = "no_client"

\* C20's case: a greeting of three lines, the second AUTH REQUIRED, was
\* accepted and its client requires auth.
C20_Witness ==
  /\ IsHyrcon
  /\ op = "connect"
  /\ BlockRead
  /\ Len(Block) = 3
  /\ Block[2] = STR_AUTH_REQUIRED
  /\ result.ok
  /\ requires_auth(result)
  /\ pc = "idle"

---------------------------------------------------------------------------
(* Claims C21 to C29.                                                      *)

\* C21, the bytes: a written frame is the declared length 10 + |P| in four
\* little-endian bytes, the id, the kind, the payload and two zero bytes.
C21_FrameLayout ==
  pc = "written" =>
    LET P == frame.payload
        n == Len(P)
    IN /\ ~Contains(P, {NUL})
       /\ wire[1] = (10 + n) % 256
       /\ wire[2] = ((10 + n) \div 256) % 256
       /\ wire[3] = 0
       /\ wire[4] = 0
       /\ from_le_bytes(SubSeq(wire, 5, 8)) = frame.id
       /\ from_le_bytes(SubSeq(wire, 9, 12)) = frame.kind
       /\ SubSeq(wire, 13, 12 + n) = P
       /\ wire[13 + n] = 0
       /\ wire[14 + n] = 0
       /\ frame = Packet(1, SERVERDATA_AUTH, PayloadC) =>
            SubSeq(wire, 1, 15)
              = <<11, 0, 0, 0,  1, 0, 0, 0,  3, 0, 0, 0,  99,  0, 0>>
       /\ frame.id = -1 => SubSeq(wire, 5, 8) = <<255, 255, 255, 255>>
       /\ frame.id = I32Min => SubSeq(wire, 5, 8) = <<0, 0, 0, 128>>

\* C21: for every id, kind and payload without NUL, read_packet on the bytes
\* write_packet produced returns exactly that id, kind and payload, and takes
\* exactly those bytes (14 + |P|) off the stream, whatever follows them.
C21_RoundTrip ==
  /\ C21_FrameLayout
  /\ (pc = "written" /\ decoded # NotDecoded) =>
       /\ decoded.ok
       /\ decoded.packet = frame
       /\ consumed = 14 + Len(frame.payload)
       /\ SubSeq(wire, 1, consumed)
            = PacketBytes(frame.id, frame.kind, frame.payload)

\* C21's case: the longest payload, under the id i32::MIN, followed in the
\* stream by another frame, came back as written.
C21_Witness ==
  /\ pc = "written"
  /\ frame = Packet(I32Min, SERVERDATA_AUTH, Repeat(120, MaxPayload))
  /\ decoded.ok
  /\ decoded.packet = frame
  /\ consumed = 14 + MaxPayload
  /\ Len(wire) = consumed + 14

\* C22: read_packet returns an error for a frame whose declared length is
\* below 10 (negative included), and has then taken only the four length
\* bytes; it returns an error for a frame whose two last bytes are not both
\* zero or whose payload is not UTF-8; the positions of the buffer it indexes
\* lie inside the buffer.
C22_DecodeRejects ==
  (pc \in {"written", "peer_frame"} /\ decoded # NotDecoded /\ Len(wire) >= 4)
    =>
    LET length == from_le_bytes(SubSeq(wire, 1, 4))
    IN /\ length < 10 => (~decoded.ok /\ consumed = 4)
       /\ consumed > 4 => length >= 10
       /\ (length >= 10 /\ Len(wire) >= 4 + length) =>
            LET body == SubSeq(wire, 5, 4 + length)
                payload_bytes == SubSeq(body, 9, length - 2)
            IN /\ BufferIndexed(length) \subseteq 1..length
               /\ (body[length - 1] # 0 \/ body[length] # 0) => ~decoded.ok
               /\ payload_bytes \in NonTextPayloads => ~decoded.ok
               /\ ~ValidUtf8(payload_bytes) => ~decoded.ok

\* C22's case: the frame that declares the length -1 was rejected after its
\* four length bytes, the two bytes behind them left in the stream.
C22_Witness ==
  /\ pc = "peer_frame"
  /\ wire = <<255, 255, 255, 255,  7, 7>>
  /\ ~decoded.ok
  /\ decoded.err = "InvalidLength"
  /\ consumed = 4

\* Every character of s is CR or LF.
OnlyCrLf(s) == \A i \in 1..Len(s) : s[i] \in {CR, LF}

\* t is s without the CR and LF characters at its two ends, and has none at
\* its own ends.
StrippedOf(s, t) ==
  /\ t # << >>
  /\ t[1] \notin {CR, LF}
  /\ t[Len(t)] \notin {CR, LF}
  /\ \E i \in 0..Len(s) :
       /\ i + Len(t) <= Len(s)
       /\ SubSeq(s, i + 1, i + Len(t)) = t
       /\ OnlyCrLf(SubSeq(s, 1, i))
       /\ OnlyCrLf(SubSeq(s, i + Len(t) + 1, Len(s)))

\* C23: sanitize returns None for a line of CR and LF characters only and for
\* a line that is empty after trimming its white space; for every other line
\* it returns Some of the line with exactly its leading and trailing CR and
\* LF characters removed, and sanitize of that text returns it again.
C23_Sanitize ==
  (pc = "util" /\ sanitized.returned) =>
     IF OnlyCrLf(input) \/ TrimIsEmpty(input)
       THEN sanitized.value = << >>
       ELSE /\ Len(sanitized.value) = 1
            /\ StrippedOf(input, sanitized.value[1])
            /\ sanitize(sanitized.value[1]) = sanitized.value

\* C23's case: LF, " Exit " and LF gave Some(" Exit "), the spaces kept.
C23_Witness ==
  /\ pc = "util"
  /\ input = <<LF, 32, 69, 120, 105, 116, 32, LF>>
  /\ sanitized = ReturnedValue(<< <<32, 69, 120, 105, 116, 32>> >>)

\* str::trim: s without the white space at its two ends.
Trimmed(s) == trim_matches(s, {c \in 0..127 : IsWhitespace(c)})

\* C24: is_exit_command returns true exactly for the lines that, their
\* leading and trailing white space (spaces as well as CR and LF) and their
\* ASCII case ignored, are the word quit or the word exit.
C24_ExitCommand ==
  (pc = "util" /\ is_exit.returned) =>
     (is_exit.value <=> \/ eq_ignore_ascii_case(Trimmed(input), STR_QUIT_LOWER)
                  \/ eq_ignore_ascii_case(Trimmed(input), STR_EXIT_LOWER))

\* C25: every call in progress returns, also against a peer that goes on
\* sending, each item inside the deadline of its read, input the loops ignore.
C25_SlowPeerCallsReturn == [] (InCall => <> ~InCall)

\* C26: when a Source authenticate has returned Ok(outcome), the session's
\* authenticated flag is true exactly when the outcome is Success.
C26_AuthedIffSuccess ==
  (IsSource /\ op = "authenticate" /\ Returned /\ result.ok) =>
     (authed <=> result = OkAuth("Success"))

\* C27: after a quit has returned, with Ok or with an error, the session is
\* closed, in both backends.
C27_QuitCloses ==
  (op = "quit" /\ Returned) => closed

\* C28: no request id a Source session allocates equals -1, the id by which
\* the server reports that authentication failed; this also after the
\* counter has wrapped.
C28_NoIdMinusOne ==
  IsSource =>
    \A i \in 1..Len(sent) : sent[i].call = "write" => SentId(i) # -1

\* A late reply: a RESPONSE_VALUE packet with an earlier command's or
\* sentinel's id.
IsStale(p) == p.kind = SERVERDATA_RESPONSE_VALUE /\ p.id \in EarlierIds

NotStale(p) == ~IsStale(p)

\* C29, in each state: the ids of the command in progress are not among the
\* earlier ids, and the lines it has collected are those it would have
\* collected had the late replies not been received.
C29_StaleState ==
  (IsSource /\ CommandPassed /\ Len(sent) = 2) =>
     /\ command_id \notin EarlierIds
     /\ sentinel_id \notin EarlierIds
     /\ result.ok =>
          result.payload = CommandLines(Front(SelectSeq(received, NotStale)))
     /\ pc = "collect" =>
          payload_lines = CommandLines(SelectSeq(received, NotStale))

\* C29, in each step: the turn of send_command's loop on a late reply adds
\* no line and does not end the call.
C29_StaleStep ==
  (IsSource /\ pc = "collect" /\ Len(received') = Len(received) + 1
   /\ IsStale(Last(received'))) =>
     /\ pc' = "collect"
     /\ payload_lines' = payload_lines
     /\ result' = result
     /\ UNCHANGED << authed, closed >>

\* C29: RESPONSE_VALUE packets that carry an earlier call's command or
\* sentinel id add no payload to a later send_command and do not end its
\* response collection (the counter not having wrapped).
C29_StaleRepliesIgnored ==
  [] C29_StaleState /\ [][C29_StaleStep]_vars

\* C29's case: the command with the ids 4 and 5 read the late, empty reply to
\* the earlier sentinel 3 and the late reply "c" to the earlier command 2,
\* then its own sentinel's reply, and returned no line.
C29_Witness ==
  /\ IsSource
  /\ op = "send_command"
  /\ Returned
  /\ command_id = 4
  /\ sentinel_id = 5
  /\ received = << Packet(3, SERVERDATA_RESPONSE_VALUE, << >>),
                   Packet(2, SERVERDATA_RESPONSE_VALUE, PayloadC),
                   Packet(5, SERVERDATA_RESPONSE_VALUE, << >>) >>
  /\ result = OkResponse("Ok", << >>, << >>)

=============================================================================
